---------------------------- MODULE Spec2Model ----------------------------
(***************************************************************************)
(* A model of the request handlers of the payload-master demo:             *)
(*   - GET  /api/posts/stats        (postsStatsEndpoint)                   *)
(*   - POST /api/posts/publish-all  (publishAllEndpoint)                   *)
(*   - GET  /api/health             (healthEndpoint)                       *)
(*   - POST /api/custom/posts       (custom route, POST)                   *)
(*   - POST /api/posts              (generated create behind the shim)     *)
(* over the content store (posts, authors, categories).  Every await of a  *)
(* store operation is one atomic step of a handler; handlers of different  *)
(* requests interleave between those steps.                                *)
(*                                                                         *)
(* Strings that the code inspects character by character (titles, slugs)   *)
(* are sequences of one-character strings.                                 *)
(***************************************************************************)
EXTENDS Integers, Sequences, FiniteSets, TLC

\* ------------------------------------------------------------------ bounds
MaxCalls == 2        \* calls started in one behaviour of Spec
MaxFaults == 1       \* store operations that fail in one behaviour of Spec
MaxCallsCap == 2     \* calls started in one behaviour of SpecCap
MaxFaultsCap == 1    \* store operations that fail in one behaviour of SpecCap
MaxExtra == 1        \* how far the store sizes of SpecCap go around each cap
MaxFaultAt == 3      \* an update raises in the first MaxFaultAt iterations or the last

\* ------------------------------------------------------- program constants
StatsLimit == 1000   \* limit of the stats read
PublishLimit == 100  \* limit of the publish-all read
AuthorLookupLimit == 1
NoDate == 0          \* publishedOn: undefined

\* ----------------------------------------------------------------- strings
Str(s) == [t |-> "string", s |-> s, n |-> 0]
Num(n) == [t |-> "number", s |-> <<>>, n |-> n]
Undef == [t |-> "undefined", s |-> <<>>, n |-> 0]
Null == [t |-> "null", s |-> <<>>, n |-> 0]

\* The letters toLowerCase() changes among the characters a string of the
\* model can hold (up to U+00FF): A-Z, and the upper-case letters of Latin-1
UpperChars == <<"A","B","C","D","E","F","G","H","I","J","K","L","M",
                "N","O","P","Q","R","S","T","U","V","W","X","Y","Z",
                "À","Á","Â","Ã","Ä","Å","Æ","Ç","È","É","Ê","Ë","Ì","Í","Î",
                "Ï","Ð","Ñ","Ò","Ó","Ô","Õ","Ö","Ø","Ù","Ú","Û","Ü","Ý","Þ">>
LowerChars == <<"a","b","c","d","e","f","g","h","i","j","k","l","m",
                "n","o","p","q","r","s","t","u","v","w","x","y","z",
                "à","á","â","ã","ä","å","æ","ç","è","é","ê","ë","ì","í","î",
                "ï","ð","ñ","ò","ó","ô","õ","ö","ø","ù","ú","û","ü","ý","þ">>
\* a-z of the regular expression
AsciiLower == {LowerChars[i] : i \in 1..26}
DigitChars == {"0","1","2","3","4","5","6","7","8","9"}
DigitSeq == <<"0","1","2","3","4","5","6","7","8","9">>
Range(s) == {s[i] : i \in DOMAIN s}

\* \s of the regular expressions, and what trim() strips, among the
\* characters a string of the model can hold (up to U+00FF): space, tab, line
\* feed, carriage return, form feed, vertical tab (U+000B) and no-break space
\* (U+00A0)
VerticalTab == ""
NoBreakSpace == " "
IsSpace(c) == c \in {" ", "\t", "\n", "\r", "\f", VerticalTab, NoBreakSpace}
IsHyphen(c) == c = "-"
\* [a-z0-9\s-]
IsSlugChar(c) == c \in AsciiLower \/ c \in DigitChars \/ IsSpace(c) \/ IsHyphen(c)

ToLowerChar(c) ==
  IF \E i \in DOMAIN UpperChars : UpperChars[i] = c
  THEN LowerChars[CHOOSE i \in DOMAIN UpperChars : UpperChars[i] = c]
  ELSE c

ToLowerCase(s) == [i \in DOMAIN s |-> ToLowerChar(s[i])]

RECURSIVE TrimStart(_)
TrimStart(s) == IF s # <<>> /\ IsSpace(Head(s)) THEN TrimStart(Tail(s)) ELSE s

RECURSIVE TrimEnd(_)
TrimEnd(s) ==
  IF s # <<>> /\ IsSpace(s[Len(s)]) THEN TrimEnd(SubSeq(s, 1, Len(s) - 1)) ELSE s

\* (variant: only the leading whitespace is removed)
TrimLeftOnly(s) == TrimStart(s)
Trim(s) == TrimEnd(TrimStart(s))

\* (variant: nothing is stripped)
StripNothing(s) == s
\* .replace(/[^a-z0-9\s-]/g, "")
StripNonSlugChars(s) == SelectSeq(s, IsSlugChar)

\* .replace(/\s+/g, "-"): every maximal run of whitespace becomes one hyphen
RECURSIVE SpacesToHyphen(_)
SpacesToHyphen(s) ==
  IF s = <<>> THEN <<>>
  ELSE IF IsSpace(Head(s))
       THEN <<"-">> \o SpacesToHyphen(TrimStart(s))
       ELSE <<Head(s)>> \o SpacesToHyphen(Tail(s))

\* .replace(/-+/g, "-"): every maximal run of hyphens becomes one hyphen
RECURSIVE CollapseHyphens(_)
CollapseHyphens(s) ==
  IF s = <<>> THEN <<>>
  ELSE IF IsHyphen(Head(s)) /\ Len(s) > 1 /\ IsHyphen(s[2])
       THEN CollapseHyphens(Tail(s))
       ELSE <<Head(s)>> \o CollapseHyphens(Tail(s))

\* (variant: the runs of hyphens are left as they are)
slugifyUncollapsed(input) ==
  SpacesToHyphen(StripNonSlugChars(Trim(ToLowerCase(input))))
slugify(input) ==
  CollapseHyphens(SpacesToHyphen(StripNonSlugChars(Trim(ToLowerCase(input)))))


\* ------------------------------------------------------------------- store
\* Status values of a stored post.  The select field has two options and is
\* not required, so a post written with status null keeps no status.
Draft == "draft"
Published == "published"
NullStatus == "null"

Min(a, b) == IF a < b THEN a ELSE b

\* The API Bot sentinel of the custom route
ApiBotName == <<"A","P","I"," ","B","o","t">>
ApiBotBio ==
  <<"C","r","e","a","t","e","d"," ","a","u","t","o","m","a","t","i","c","a","l","l","y"," ","b","y"," ","/","a","p","i",
   "/","c","u","s","t","o","m","/","p","o","s","t","s">>

\* A where clause {field: {equals: value}}; NoWhere is a find without one.
NoWhere == [field |-> "", equals |-> ""]
WhereStatusDraft == [field |-> "status", equals |-> Draft]
WhereNameApiBot == [field |-> "name", equals |-> ApiBotName]

Matches(doc, where) == where.field = "" \/ doc[where.field] = where.equals

\* Collections are kept in creation order; a find without a sort returns the
\* newest document first.
Reverse(s) == [i \in 1..Len(s) |-> s[Len(s) + 1 - i]]

\* payload.find({collection, where, limit}): the page of at most `limit`
\* matching documents (limit 0: all of them) and the count of all matching
\* documents.
Find(coll, where, limit) ==
  LET SelectMatch(d) == Matches(d, where)
      matching == SelectSeq(Reverse(coll), SelectMatch)
  IN  [docs |-> IF limit = 0 THEN matching
                ELSE SubSeq(matching, 1, Min(limit, Len(matching))),
       totalDocs |-> Len(matching)]

\* Hooks of the collections: they log and hand back what they were given.
logAfterAuthorChange(doc, operation) == doc
\* (variant: the hook derives the slug of a new post from its title)
logBeforePostChangeSlug(data, operation) ==
  IF operation = "create" THEN [data EXCEPT !.slug = slugify(data.title)] ELSE data
logBeforePostChange(data, operation) == data
logAfterPostChange(doc, operation) == doc

\* Field by field, `data` over `doc`
Merge(doc, data) ==
  [f \in DOMAIN doc |-> IF f \in DOMAIN data THEN data[f] ELSE doc[f]]

HasPost(ps, id) == \E i \in DOMAIN ps : ps[i].id = id
PostIndex(ps, id) == CHOOSE i \in DOMAIN ps : ps[i].id = id
\* The id the store gives the next document: one above the highest there is
NextId(docs) ==
  IF docs = <<>> THEN 1
  ELSE LET ids == {docs[k].id : k \in DOMAIN docs}
       IN  1 + (CHOOSE m \in ids : \A k \in ids : k <= m)

\* payload.update({collection: "posts", id, data}): the collection after it
UpdatePost(ps, id, data) ==
  LET i == PostIndex(ps, id)
      doc == logAfterPostChange(Merge(ps[i], logBeforePostChange(data, "update")), "update")
  IN  [ps EXCEPT ![i] = doc]

\* ------------------------------------------------------------------- state
VARIABLES
  posts,       \* the posts collection, in creation order
  authors,     \* the authors collection, in creation order
  categories,  \* the categories collection
  req,         \* per request slot: the handler's position and locals
  now,         \* the clock read by new Date()
  quota,       \* calls that may still be started
  faults,      \* store operations that may still fail
  hist,        \* history: what the properties need to remember
  slugIn,      \* input of the slug unit
  slugOut      \* its result, "pending" until computed

store == <<posts, authors, categories>>
vars == <<posts, authors, categories, req, now, quota, faults, hist, slugIn, slugOut>>

\* Request slots: at most two requests are in flight together
Reqs == {1, 2}

\* A slot is free before its first request and once its response is sent (the
\* response stays readable until the next request takes the slot).  Slots are
\* interchangeable: a request takes the first free one.
Free(r) == req[r].pc \in {"idle", "done"}
FirstFree(r) == Free(r) /\ \A q \in Reqs : q < r => ~ Free(q)

NoResp == [ok |-> FALSE, endpoint |-> "none"]
ErrorResp(e) == [ok |-> FALSE, endpoint |-> e]

NoBody == [kind |-> "none", title |-> Undef, slug |-> Undef, excerpt |-> Undef,
           status |-> Undef, authorId |-> Undef, categoryIds |-> Undef,
           name |-> Undef]

NoPrev == [done |-> FALSE, ok |-> FALSE, count |-> 0, allRead |-> FALSE, dirty |-> FALSE]

\* The three reads of the dashboard that Promise.all starts together; each is answered on its own,
\* in any order, and writes of other requests can come between two of them
LocalReads == {"authors", "posts", "categories"}
NotRead == [docs |-> <<>>, totalDocs |-> 0]
NoneRead == [c \in LocalReads |-> NotRead]

IdleReq ==
  [kind |-> "none", pc |-> "idle", resp |-> NoResp,
   docs |-> <<>>, i |-> 0, publishedCount |-> 0,
   body |-> NoBody, title |-> <<>>, slug |-> <<>>, authorId |-> Undef,
   \* the custom create: the publishedOn of the data it hands to payload.create
   publishedOn |-> NoDate,
   \* a POST through the catch-all route: path segments, whether logging
   \* throws, whether the body of the request itself (not of a clone) was
   \* read, the title logged, the invocations of the generated handler
   path |-> <<>>, logFails |-> FALSE, bodyUsed |-> FALSE, logged |-> Undef,
   handled |-> 0,
   \* a PATCH, PUT or DELETE through the catch-all route: the method and the
   \* id of the document in the path
   method |-> "", target |-> 0,
   \* the custom list: its limit parameter and the limit it passes to the store
   param |-> [given |-> FALSE, s |-> <<>>], limit |-> [kind |-> "finite", v |-> 0, e |-> 0],
   \* the custom create: its reads and writes of the authors collection, and
   \* the ids of the authors named API Bot when it looked one up
   authorReads |-> 0, authorWrites |-> 0, botsAtLookup |-> {},
   \* and the posts it has added to the collection
   postWrites |-> 0,
   \* the dashboard: what its three fetches gave, which of them were made and
   \* which failed
   localLeft |-> {}, localRead |-> NoneRead,
   localData |-> [authors |-> <<>>, posts |-> <<>>, categories |-> <<>>,
                  totalAuthors |-> 0, totalPosts |-> 0, totalCategories |-> 0],
   localError |-> "", graphqlData |-> [errors |-> <<>>, data |-> "none"],
   postStats |-> [ok |-> FALSE, endpoint |-> "null"],
   tried |-> {}, broken |-> {},
   \* whether a store operation of the call has failed
   failed |-> FALSE,
   \* why the call failed, if it did: "input" or "store"
   cause |-> "none",
   \* history of this call: the ids of the posts whose update has completed
   updated |-> <<>>,
   \* and how many of these updates found the post still a draft
   transitioned |-> 0,
   seen |-> 0, draftsAtRead |-> <<>>, prev |-> NoPrev, dirty |-> FALSE]

Ids(docs) == [k \in DOMAIN docs |-> docs[k].id]

\* A store operation either completes or raises; at most `faults` raise.
Outcomes == IF faults > 0 THEN {"ok", "raise"} ELSE {"ok"}
Spend(outcome) == IF outcome = "raise" THEN faults - 1 ELSE faults

\* A request arrives in slot r
Arrive(r, kind, pc) ==
  /\ FirstFree(r)
  /\ quota > 0
  /\ quota' = quota - 1
  /\ now' = now + 1
  /\ req' = [req EXCEPT ![r] = [IdleReq EXCEPT !.kind = kind, !.pc = pc]]

\* ------------------------------------------------- GET /api/posts/stats
CountStatus(docs, status) ==
  LET Has(p) == p.status = status IN Len(SelectSeq(docs, Has))

\* (variant: the read without its limit)
StatsFindUnlimited(ps) == Find(ps, NoWhere, 0)
StatsFind(ps) == Find(ps, NoWhere, StatsLimit)

\* (variant: total taken from the page instead of totalDocs)
StatsBodyPageTotal(allPosts, timestamp) ==
  [ok |-> TRUE, endpoint |-> "stats",
   total |-> Len(allPosts.docs),
   published |-> CountStatus(allPosts.docs, Published),
   draft |-> CountStatus(allPosts.docs, Draft),
   timestamp |-> timestamp]
StatsBody(allPosts, timestamp) ==
  [ok |-> TRUE, endpoint |-> "stats",
   total |-> allPosts.totalDocs,
   published |-> CountStatus(allPosts.docs, Published),
   draft |-> CountStatus(allPosts.docs, Draft),
   timestamp |-> timestamp]

\* The handler has no try: what the read raises leaves the handler
\* (variant: a read that raises is answered as an empty store)
StatsAnswerEmpty(outcome, ps, timestamp) ==
  IF outcome = "ok" THEN StatsBody(StatsFind(ps), timestamp)
  ELSE StatsBody([docs |-> <<>>, totalDocs |-> 0], timestamp)
StatsAnswer(outcome, ps, timestamp) ==
  IF outcome = "ok" THEN StatsBody(StatsFind(ps), timestamp) ELSE ErrorResp("stats")

\* The handler reads and counts; it writes nothing
\* (variant: the handler stores as drafts the posts it finds without status)
PostsAfterStatsRepaired(ps) ==
  [k \in DOMAIN ps |->
     IF ps[k].status = NullStatus THEN [ps[k] EXCEPT !.status = Draft] ELSE ps[k]]
PostsAfterStats(ps) == ps

StatsCall(r) ==
  /\ Arrive(r, "stats", "stats_find")
  /\ UNCHANGED <<store, faults, hist, slugIn, slugOut>>

StatsRead(r) ==
  /\ req[r].pc = "stats_find"
  /\ \E o \in Outcomes :
       /\ faults' = Spend(o)
       /\ req' = [req EXCEPT ![r] =
                    [@ EXCEPT !.pc = "done",
                              !.seen = Len(posts),
                              !.failed = o = "raise",
                              !.cause = IF o = "ok" THEN "none" ELSE "store",
                              !.resp = StatsAnswer(o, posts, now)]]
  /\ posts' = PostsAfterStats(posts)
  /\ UNCHANGED <<authors, categories, now, quota, hist, slugIn, slugOut>>

\* ------------------------------------------- POST /api/posts/publish-all
\* (variants: the read without its status filter, and without its limit)
PublishAllFindUnfiltered(ps) == Find(ps, NoWhere, PublishLimit)
PublishAllFindUnlimited(ps) == Find(ps, WhereStatusDraft, 0)
PublishAllFind(ps) == Find(ps, WhereStatusDraft, PublishLimit)

PublishAllBody(publishedCount) ==
  [ok |-> TRUE, endpoint |-> "publish-all",
   message |-> <<"Published ", publishedCount, " posts">>,
   publishedCount |-> publishedCount]

\* What a finished publish-all leaves for the next one to compare with
Finished(rq, ok, count) ==
  [done |-> TRUE, ok |-> ok, count |-> count,
   allRead |-> Len(rq.docs) = Len(rq.draftsAtRead),
   dirty |-> rq.dirty]

\* History: the ids of all drafts, in the order a read returns them
DraftIds(ps) ==
  LET IsDraft(p) == p.status = Draft IN Ids(SelectSeq(Reverse(ps), IsDraft))

PublishAllCall(r) ==
  /\ Arrive(r, "publish-all", "pa_find")
  /\ UNCHANGED <<store, faults, hist, slugIn, slugOut>>

PublishAllRead(r) ==
  /\ req[r].pc = "pa_find"
  /\ \E o \in Outcomes :
       /\ faults' = Spend(o)
       /\ LET drafts == PublishAllFind(posts)
              rq == [req[r] EXCEPT
                       !.docs = IF o = "ok" THEN Ids(drafts.docs) ELSE <<>>,
                       !.failed = o = "raise",
                       !.i = 1,
                       !.publishedCount = 0,
                       !.draftsAtRead = DraftIds(posts),
                       !.prev = hist.lastPublishAll,
                       !.dirty = FALSE]
          IN  IF o = "raise"
              THEN /\ req' = [req EXCEPT ![r] = [rq EXCEPT !.pc = "done", !.cause = "store",
                                                           !.resp = ErrorResp("publish-all")]]
                   /\ hist' = [hist EXCEPT !.lastPublishAll = Finished(rq, FALSE, 0)]
              ELSE IF rq.docs = <<>>
              THEN /\ req' = [req EXCEPT ![r] = [rq EXCEPT !.pc = "done",
                                                           !.resp = PublishAllBody(0)]]
                   /\ hist' = [hist EXCEPT !.lastPublishAll = Finished(rq, TRUE, 0)]
              ELSE /\ req' = [req EXCEPT ![r] = [rq EXCEPT !.pc = "pa_update"]]
                   /\ hist' = hist
  /\ UNCHANGED <<store, now, quota, slugIn, slugOut>>

\* await req.payload.update({collection: "posts", id: post.id,
\*                           data: {status: "published"}}): the posts after
\* it.  An update that raises has written nothing.
\* (variant: the update is written before it raises)
PostsAfterUpdateWritten(ps, rq, outcome) ==
  UpdatePost(ps, rq.docs[rq.i], [status |-> Published])
\* (variant: an update that raises puts the posts already updated by the
\* call back to draft)
PostsAfterUpdateUndone(ps, rq, outcome) ==
  IF outcome = "ok" THEN UpdatePost(ps, rq.docs[rq.i], [status |-> Published])
  ELSE [k \in DOMAIN ps |->
          IF \E j \in 1..(rq.i - 1) : rq.docs[j] = ps[k].id
          THEN [ps[k] EXCEPT !.status = Draft] ELSE ps[k]]
\* (variant: the update dates the publication as well)
PostsAfterUpdateDated(ps, rq, outcome) ==
  IF outcome = "ok"
  THEN UpdatePost(ps, rq.docs[rq.i], [status |-> Published, publishedOn |-> 1])
  ELSE ps
PostsAfterUpdate(ps, rq, outcome) ==
  IF outcome = "ok" THEN UpdatePost(ps, rq.docs[rq.i], [status |-> Published]) ELSE ps

\* The outcomes of the update of one iteration: a raise is tried in the
\* first iterations and in the last one
UpdateOutcomes(rq) ==
  IF rq.i <= MaxFaultAt \/ rq.i = Len(rq.docs) THEN Outcomes ELSE {"ok"}

\* publishedCount++ after the awaited update: an update that raises is not
\* counted
\* (variant: the update is counted when it is issued)
CountAfterIssued(publishedCount, outcome) == publishedCount + 1
CountAfter(publishedCount, outcome) ==
  IF outcome = "ok" THEN publishedCount + 1 ELSE publishedCount

\* History: 1 if the post about to be updated is still a draft, else 0
StillDraft(ps, rq) ==
  IF ps[PostIndex(ps, rq.docs[rq.i])].status = Draft THEN 1 ELSE 0

\* One iteration of the for loop: await update, count, next
PublishAllUpdate(r) ==
  /\ req[r].pc = "pa_update"
  \* the update of a post deleted since it was read raises
  /\ \E o \in IF HasPost(posts, req[r].docs[req[r].i])
              THEN UpdateOutcomes(req[r]) ELSE {"raise"} :
       /\ faults' = IF HasPost(posts, req[r].docs[req[r].i]) THEN Spend(o) ELSE faults
       /\ LET rq == [req[r] EXCEPT !.failed = o = "raise"]
              count == CountAfter(rq.publishedCount, o)
          IN  IF o = "raise"
              THEN /\ posts' = PostsAfterUpdate(posts, rq, o)
                   /\ req' = [req EXCEPT ![r] = [rq EXCEPT !.pc = "done", !.cause = "store",
                                                           !.publishedCount = count,
                                                           !.resp = ErrorResp("publish-all")]]
                   /\ hist' = [hist EXCEPT !.lastPublishAll = Finished(rq, FALSE, count)]
              ELSE /\ posts' = PostsAfterUpdate(posts, rq, o)
                   /\ IF rq.i = Len(rq.docs)
                      THEN /\ req' = [req EXCEPT ![r] =
                                        [rq EXCEPT !.pc = "done",
                                                   !.publishedCount = count,
                                                   !.updated = Append(@, rq.docs[rq.i]),
                                                   !.transitioned = @ + StillDraft(posts, rq),
                                                   !.resp = PublishAllBody(count)]]
                           /\ hist' = [hist EXCEPT !.lastPublishAll =
                                                        Finished(rq, TRUE, count)]
                      ELSE /\ req' = [req EXCEPT ![r] =
                                        [rq EXCEPT !.i = rq.i + 1,
                                                   !.publishedCount = count,
                                                   !.updated = Append(@, rq.docs[rq.i]),
                                                   !.transitioned = @ + StillDraft(posts, rq)]]
                           /\ hist' = hist
  /\ UNCHANGED <<authors, categories, now, quota, slugIn, slugOut>>

\* ------------------------------------------------------- GET /api/health
\* (variant: the status reported is "error")
HealthBodyError(timestamp) ==
  [ok |-> FALSE, endpoint |-> "health", status |-> "error",
   timestamp |-> timestamp, payload |-> "running"]
HealthBody(timestamp) ==
  [ok |-> TRUE, endpoint |-> "health", status |-> "ok",
   timestamp |-> timestamp, payload |-> "running"]

HealthCall(r) ==
  /\ FirstFree(r)
  /\ quota > 0
  /\ quota' = quota - 1
  /\ now' = now + 1
  /\ req' = [req EXCEPT ![r] = [IdleReq EXCEPT !.kind = "health", !.pc = "done",
                                              !.resp = HealthBody(now')]]
  /\ UNCHANGED <<store, faults, hist, slugIn, slugOut>>

\* ---------------------------------------------------- creating documents
DefaultTitle == <<"C","u","s","t","o","m"," ","A","P","I"," ","P","o","s","t">>
DefaultExcerpt ==
  <<"C","r","e","a","t","e","d"," ","b","y"," ","c","u","s","t","o","m"," ","A","P","I">>
PublishedLiteral == <<"p","u","b","l","i","s","h","e","d">>
DraftLiteral == <<"d","r","a","f","t">>

\* payload.create({collection: "authors", data}): the document created
NewAuthor(as, data) ==
  logAfterAuthorChange([id |-> NextId(as), name |-> data.name, bio |-> data.bio], "create")

\* The posts schema: title, slug and author are required, slug is unique, and
\* the author must be a document of the authors collection.
PostRejected(ps, as, data) ==
  \/ data.title = <<>>
  \/ data.slug = <<>>
  \/ \E k \in DOMAIN ps : ps[k].slug = data.slug
  \/ data.author.t # "number"
  \/ ~ \E k \in DOMAIN as : as[k].id = data.author.n

\* payload.create({collection: "posts", data}): the document created
NewPost(ps, data) ==
  LET d == logBeforePostChange(data, "create")
  IN  logAfterPostChange(
        [id |-> NextId(ps), title |-> d.title, slug |-> d.slug, excerpt |-> d.excerpt,
         status |-> d.status, author |-> d.author.n, categories |-> d.categories,
         publishedOn |-> d.publishedOn], "create")

\* Creating a draft is what a later publish-all can see: remember it in every
\* publish-all that has read, and in the last one that finished.
NoteCreated(rs, doc) ==
  IF doc.status # Draft THEN rs
  ELSE [q \in DOMAIN rs |->
          IF rs[q].kind = "publish-all" /\ rs[q].pc \in {"pa_update", "done"}
          THEN [rs[q] EXCEPT !.dirty = TRUE] ELSE rs[q]]

NoteCreatedHist(h, doc) ==
  IF doc.status # Draft THEN h ELSE [h EXCEPT !.lastPublishAll.dirty = TRUE]

\* ------------------------------------------------ POST /api/custom/posts
Obj(title, slug, excerpt, status, authorId, categoryIds) ==
  [kind |-> "object", title |-> title, slug |-> slug, excerpt |-> excerpt,
   status |-> status, authorId |-> authorId, categoryIds |-> categoryIds,
   name |-> Undef]
EmptyObject == Obj(Undef, Undef, Undef, Undef, Undef, Undef)
Arr(ids) == [t |-> "array", s |-> ids, n |-> 0]

\* What the request carries: text that is not JSON, the JSON null, a JSON
\* number, or a JSON object.
Unparseable == [EmptyObject EXCEPT !.kind = "unparseable"]
JsonNull == [EmptyObject EXCEPT !.kind = "null"]
JsonNumber == [EmptyObject EXCEPT !.kind = "number"]

\* await req.json().catch(() => ({}))
ParseBody(raw) == IF raw.kind = "unparseable" THEN EmptyObject ELSE raw

\* body.<field>: a property of a number is undefined
Prop(body, f) == IF body.kind = "object" THEN body[f] ELSE Undef

TitleOf(body) ==
  IF Prop(body, "title").t = "string" THEN Prop(body, "title").s ELSE DefaultTitle

SlugOf(body) ==
  IF Prop(body, "slug").t = "string" THEN Prop(body, "slug").s ELSE slugify(TitleOf(body))

ExcerptOf(body) ==
  IF Prop(body, "excerpt").t = "string" THEN Prop(body, "excerpt").s ELSE DefaultExcerpt

\* (variant: the comparison ignores case)
StatusOfAnyCase(body) ==
  IF Prop(body, "status").t = "string" /\ ToLowerCase(Prop(body, "status").s) = PublishedLiteral
  THEN Published ELSE Draft
\* body.status === "published" ? "published" : "draft"
StatusOf(body) ==
  IF Prop(body, "status") = Str(PublishedLiteral) THEN Published ELSE Draft

\* body.status === "published" ? new Date().toISOString() : undefined
PublishedOnOf(body, timestamp) ==
  IF Prop(body, "status") = Str(PublishedLiteral) THEN timestamp ELSE NoDate

CategoriesOf(body) ==
  IF Prop(body, "categoryIds").t = "array" THEN Prop(body, "categoryIds").s ELSE <<>>

\* authorId === undefined || authorId === null || authorId === ""
\* (variant: an id that is no text counts as not given)
NoAuthorGivenUnlessText(authorId) == authorId.t # "string" \/ authorId = Str(<<>>)
NoAuthorGiven(authorId) ==
  authorId.t = "undefined" \/ authorId.t = "null" \/ authorId = Str(<<>>)

\* (variant: the author is created under another spelling of the name)
ApiBotDataLower == [name |-> ToLowerCase(ApiBotName), bio |-> ApiBotBio]
ApiBotData == [name |-> ApiBotName, bio |-> ApiBotBio]

\* (variant: the lookup asks for another spelling of the name)
ApiBotLookupLower(as) ==
  Find(as, [field |-> "name", equals |-> ToLowerCase(ApiBotName)], AuthorLookupLimit)
ApiBotLookup(as) == Find(as, WhereNameApiBot, AuthorLookupLimit)

\* The data of payload.create: an object literal, built when the call is made,
\* before its await; the date is the clock as it was read then
CustomPostData(rq) ==
  [title |-> rq.title, slug |-> rq.slug, excerpt |-> ExcerptOf(rq.body),
   status |-> StatusOf(rq.body), author |-> rq.authorId,
   categories |-> CategoriesOf(rq.body),
   publishedOn |-> rq.publishedOn]

\* The handler comes to payload.create of the post: the arguments are
\* evaluated, new Date() among them, and the create is awaited
CallCreatePost(rq, timestamp) ==
  [rq EXCEPT !.pc = "cc_create_post", !.publishedOn = PublishedOnOf(rq.body, timestamp)]

CustomCreateBody(created) ==
  [ok |-> TRUE, endpoint |-> "custom-create", source |-> "custom-api", created |-> created]

CustomBodies ==
  { Unparseable, JsonNull, JsonNumber,
    Obj(Undef, Undef, Undef, Str(PublishedLiteral), Undef, Undef),
    Obj(Str(<<"H","i","!">>), Undef, Undef, Str(DraftLiteral), Num(1), Undef),
    Obj(Num(5), Str(<<"s">>), Str(<<"e">>), Str(<<"P","u","b","l","i","s","h","e","d">>),
        Str(<<>>), Arr(<<1>>)),
    Obj(Str(<<"H","i","!">>), Undef, Null, Null, Null, Undef),
    Obj(Str(<<>>), Str(<<"s">>), Undef, Str(PublishedLiteral), Num(2), Undef) }

CustomCreateCall(r) ==
  /\ FirstFree(r)
  /\ quota > 0
  /\ quota' = quota - 1
  /\ now' = now + 1
  /\ \E raw \in CustomBodies :
       LET body == ParseBody(raw)
           rq == [IdleReq EXCEPT !.kind = "custom-create", !.body = body]
       IN  IF body.kind = "null"
           \* body.title of null raises a TypeError
           THEN req' = [req EXCEPT ![r] = [rq EXCEPT !.pc = "done", !.cause = "input",
                                                     !.resp = ErrorResp("custom-create")]]
           ELSE LET started == [rq EXCEPT !.title = TitleOf(body),
                                          !.slug = SlugOf(body),
                                          !.authorId = Prop(body, "authorId"),
                                          !.pc = "cc_lookup"]
                IN  req' = [req EXCEPT ![r] =
                              IF NoAuthorGiven(Prop(body, "authorId"))
                              THEN started ELSE CallCreatePost(started, now')]
  /\ UNCHANGED <<store, faults, hist, slugIn, slugOut>>

\* History: the ids of the authors named API Bot
BotIds(as) == {as[k].id : k \in {j \in DOMAIN as : as[j].name = ApiBotName}}

CustomLookup(r) ==
  /\ req[r].pc = "cc_lookup"
  /\ \E o \in Outcomes :
       /\ faults' = Spend(o)
       /\ LET existing == ApiBotLookup(authors)
          IN  IF o = "raise"
              THEN /\ req' = [req EXCEPT ![r] = [@ EXCEPT !.failed = o = "raise",
                                                          !.authorReads = @ + 1,
                                                          !.botsAtLookup = BotIds(authors),
                                                          !.pc = "done", !.cause = "store",
                                                          !.resp = ErrorResp("custom-create")]]
                   /\ hist' = hist
              ELSE IF existing.docs # <<>>
              THEN /\ req' = [req EXCEPT ![r] =
                               CallCreatePost(
                                 [@ EXCEPT !.failed = o = "raise",
                                           !.authorReads = @ + 1,
                                           !.botsAtLookup = BotIds(authors),
                                           !.authorId = Num(existing.docs[1].id)],
                                 now)]
                   /\ hist' = [hist EXCEPT !.resolved = @ + 1]
              ELSE /\ req' = [req EXCEPT ![r] = [@ EXCEPT !.failed = o = "raise",
                                                          !.authorReads = @ + 1,
                                                          !.botsAtLookup = BotIds(authors),
                                                          !.pc = "cc_create_author"]]
                   /\ hist' = hist
  /\ UNCHANGED <<store, now, quota, slugIn, slugOut>>

CustomCreateAuthor(r) ==
  /\ req[r].pc = "cc_create_author"
  /\ \E o \in Outcomes :
       /\ faults' = Spend(o)
       /\ LET createdAuthor == NewAuthor(authors, ApiBotData)
          IN  IF o = "raise"
              THEN /\ authors' = authors
                   /\ req' = [req EXCEPT ![r] = [@ EXCEPT !.failed = o = "raise", !.pc = "done", !.cause = "store",
                                                          !.resp = ErrorResp("custom-create")]]
                   /\ hist' = hist
              ELSE /\ authors' = Append(authors, createdAuthor)
                   /\ req' = [req EXCEPT ![r] =
                               CallCreatePost(
                                 [@ EXCEPT !.failed = o = "raise",
                                           !.authorWrites = @ + 1,
                                           !.authorId = Num(createdAuthor.id)],
                                 now)]
                   /\ hist' = [hist EXCEPT !.resolved = @ + 1]
  /\ UNCHANGED <<posts, categories, now, quota, slugIn, slugOut>>

\* The authors after the creation of the post: there is no catch and no
\* cleanup, an author created by the call stays whatever becomes of the post
\* (variant: a refused post takes the author created for it away)
AuthorsRolledBack(as, rq, refused) ==
  IF refused /\ rq.authorWrites > 0
  THEN SelectSeq(as, LAMBDA a : a.id # rq.authorId.n)
  ELSE as
AuthorsAfterPost(as, rq, refused) == as

CustomCreatePost(r) ==
  /\ req[r].pc = "cc_create_post"
  /\ \E o \in Outcomes :
       /\ faults' = Spend(o)
       /\ LET data == CustomPostData(req[r])
              created == NewPost(posts, data)
              refused == o = "raise" \/ PostRejected(posts, authors, data)
          IN  IF refused
              THEN /\ posts' = posts
                   /\ authors' = AuthorsAfterPost(authors, req[r], refused)
                   /\ req' = [req EXCEPT ![r] = [@ EXCEPT !.failed = refused,
                                                          !.pc = "done", !.cause = "store",
                                                          !.postWrites =
                                                             @ + Len(posts') - Len(posts),
                                                          !.resp = ErrorResp("custom-create")]]
                   /\ hist' = hist
              ELSE /\ posts' = Append(posts, created)
                   /\ authors' = AuthorsAfterPost(authors, req[r], refused)
                   /\ req' = NoteCreated(
                               [req EXCEPT ![r] = [@ EXCEPT !.failed = refused,
                                                            !.pc = "done",
                                                            !.postWrites =
                                                               @ + Len(posts') - Len(posts),
                                                            !.resp = CustomCreateBody(created)]],
                               created)
                   /\ hist' = NoteCreatedHist(hist, created)
  /\ UNCHANGED <<categories, now, quota, slugIn, slugOut>>

\* ------------------------------------------------- GET /api/custom/posts
\* A number of the language. A finite one is v * 10^e with v not a multiple of
\* ten (zero is v = 0, e = 0), so each value has one record; NaN; an infinity
\* (v its sign). Zero carries no sign.
RECURSIVE Scaled(_, _)
Scaled(v, e) ==
  IF v = 0 THEN [kind |-> "finite", v |-> 0, e |-> 0]
  ELSE IF v % 10 = 0 THEN Scaled(v \div 10, e + 1)
  ELSE [kind |-> "finite", v |-> v, e |-> e]
Finite(n) == Scaled(n, 0)
NaN == [kind |-> "nan", v |-> 0, e |-> 0]
Inf(sign) == [kind |-> "inf", v |-> sign, e |-> 0]
InfinityLiteral == <<"I","n","f","i","n","i","t","y">>

RECURSIVE PowerOfTen(_)
PowerOfTen(k) == IF k <= 0 THEN 1 ELSE 10 * PowerOfTen(k - 1)
\* The value of a finite number that is an integer (e >= 0)
IntegerOf(num) == num.v * PowerOfTen(num.e)

DigitValue(c) == CHOOSE d \in 0..9 : DigitSeq[d + 1] = c
RECURSIVE DecimalValue(_)
DecimalValue(ds) ==
  IF ds = <<>> THEN 0
  ELSE 10 * DecimalValue(SubSeq(ds, 1, Len(ds) - 1)) + DigitValue(ds[Len(ds)])

AllIn(s, C) == \A i \in DOMAIN s : s[i] \in C
\* The first position of s holding a character of C, 0 when there is none
FirstIndex(s, C) ==
  IF \E i \in DOMAIN s : s[i] \in C
  THEN CHOOSE i \in DOMAIN s : s[i] \in C /\ \A j \in 1..(i - 1) : s[j] \notin C
  ELSE 0
RECURSIVE DropLeadingZeros(_)
DropLeadingZeros(ds) ==
  IF ds # <<>> /\ Head(ds) = "0" THEN DropLeadingZeros(Tail(ds)) ELSE ds
RECURSIVE DropTrailingZeros(_)
DropTrailingZeros(ds) ==
  IF ds # <<>> /\ ds[Len(ds)] = "0"
  THEN DropTrailingZeros(SubSeq(ds, 1, Len(ds) - 1)) ELSE ds

\* The largest double is 1.7976931348623157e308 and a text above it reads as
\* an infinity; half the smallest double is about 2.4703282e-324 and a text
\* at or below it reads as zero. Both on the first nine digits of a value
\* 0.d1d2.. * 10^order.
OverflowOrder == 309
OverflowLead == 179769313
UnderflowOrder == -323
UnderflowLead == 247032822

\* Natural numbers beyond the integers of the model, as their decimal digits,
\* the least significant first
RECURSIVE BigOf(_)
BigOf(n) == IF n = 0 THEN <<>> ELSE <<n % 10>> \o BigOf(n \div 10)
RECURSIVE BigValue(_)
BigValue(ds) == IF ds = <<>> THEN 0 ELSE Head(ds) + 10 * BigValue(Tail(ds))
Zeros(n) == [i \in 1..n |-> 0]
\* ds * n + carry, for n below 10^5
RECURSIVE BigTimesSmall(_, _, _)
BigTimesSmall(ds, n, carry) ==
  IF ds = <<>>
  THEN IF carry = 0 THEN <<>>
       ELSE <<carry % 10>> \o BigTimesSmall(<<>>, n, carry \div 10)
  ELSE <<(Head(ds) * n + carry) % 10>>
       \o BigTimesSmall(Tail(ds), n, (Head(ds) * n + carry) \div 10)
RECURSIVE BigPlus(_, _, _)
BigPlus(a, b, carry) ==
  IF a = <<>> /\ b = <<>> THEN (IF carry = 0 THEN <<>> ELSE <<carry>>)
  ELSE LET t == (IF a = <<>> THEN 0 ELSE Head(a)) + (IF b = <<>> THEN 0 ELSE Head(b))
                + carry
       IN  <<t % 10>> \o BigPlus(IF a = <<>> THEN <<>> ELSE Tail(a),
                                 IF b = <<>> THEN <<>> ELSE Tail(b), t \div 10)
\* ds * n, for n below 2^31
BigTimes(ds, n) ==
  BigPlus(BigTimesSmall(ds, n % 100000, 0),
          Zeros(5) \o BigTimesSmall(ds, n \div 100000, 0), 0)
BigLess(a, b) ==
  LET n == IF Len(a) < Len(b) THEN Len(b) ELSE Len(a)
      digit(x, i) == IF i <= Len(x) THEN x[i] ELSE 0
  IN  \E i \in 1..n : /\ digit(a, i) < digit(b, i)
                      /\ \A j \in (i + 1)..n : digit(a, j) = digit(b, j)

\* Below the smallest normal double the doubles are the multiples k * 2^-1074,
\* and a text is read as the nearest of them: the k with
\* (2k - 1) * 2^-1075 < value < (2k + 1) * 2^-1075. 2^-1075 is
\* 2.47032822920623272088284396434110686182529901...e-324; its first 45
\* digits, in units of 10^-368, place every text of up to nine digits.
HalfUlpExponent == -368
HalfUlpLead ==
  Reverse(<<2,4,7,0,3,2,8,2,2,9,2,0,6,2,3,2,7,2,0,8,8,2,8,4,3,
            9,6,4,3,4,1,1,0,6,8,6,1,8,2,5,2,9,9,0,1>>)
SubnormalIndexBound == 268435456
RECURSIVE NearestSubnormal(_, _, _)
NearestSubnormal(x, lo, hi) ==
  IF hi - lo <= 1 THEN lo
  ELSE LET mid == (lo + hi) \div 2
       IN  IF BigLess(BigTimes(HalfUlpLead, 2 * mid - 1), x)
           THEN NearestSubnormal(x, mid, hi)
           ELSE NearestSubnormal(x, lo, mid)

\* The number the language shows for a double: the decimal of fewest digits
\* that reads back as it, and of these the nearest; lo and hi are the ends of
\* what reads as the double mid, and the search goes from the multiples of
\* 10^g to finer ones
RECURSIVE ShortestBetween(_, _, _, _)
ShortestBetween(lo, mid, hi, g) ==
  LET low == SubSeq(mid, 1, IF g < Len(mid) THEN g ELSE Len(mid))
      below == Zeros(Len(low)) \o SubSeq(mid, Len(low) + 1, Len(mid))
      above == BigPlus(below, Zeros(g) \o <<1>>, 0)
      inBelow == BigLess(lo, below)
      inAbove == ~ BigLess(hi, above)
      nearerBelow == BigLess(BigTimes(low, 2), Zeros(g) \o <<1>>)
  IN  IF inBelow /\ (~ inAbove \/ nearerBelow) THEN below
      ELSE IF inAbove THEN above
      ELSE ShortestBetween(lo, mid, hi, g - 1)

\* Number() of v * 10^e, v > 0, where 10^e is finer than the doubles are
\* apart (e <= -324): the nearest double, as the language shows it
SubnormalGrid == -324
RoundSubnormal(v, e) ==
  LET x == Zeros(e - HalfUlpExponent) \o BigOf(v)
      k == NearestSubnormal(x, 0, SubnormalIndexBound)
      shown == ShortestBetween(BigTimes(HalfUlpLead, 2 * k - 1),
                               BigTimes(HalfUlpLead, 2 * k),
                               BigTimes(HalfUlpLead, 2 * k + 1), Len(x) + 1)
      zeros == (CHOOSE i \in DOMAIN shown :
                  shown[i] # 0 /\ \A j \in 1..(i - 1) : shown[j] = 0) - 1
  IN  IF k = 0 THEN [kind |-> "finite", v |-> 0, e |-> 0]
      ELSE [kind |-> "finite", v |-> BigValue(SubSeq(shown, zeros + 1, Len(shown))),
            e |-> zeros + HalfUlpExponent]

\* StrDecimalLiteral without its sign: digits with an optional point and an
\* optional exponent part, "1", "1.5", ".5", "5.", "1e3", "1.5E-2". Values of
\* up to nine significant digits and exponents of up to nine digits, each of
\* which is shown by the language as it is written unless its last digit is
\* finer than the doubles are apart.
DecimalLiteral(u, sign) ==
  LET ePos == FirstIndex(u, {"e", "E"})
      mant == IF ePos = 0 THEN u ELSE SubSeq(u, 1, ePos - 1)
      expo == IF ePos = 0 THEN <<>> ELSE SubSeq(u, ePos + 1, Len(u))
      expSigned == expo # <<>> /\ Head(expo) \in {"+", "-"}
      expDigits == IF expSigned THEN Tail(expo) ELSE expo
      expOk == ePos = 0 \/ (expDigits # <<>> /\ AllIn(expDigits, DigitChars))
      expValue == IF expo # <<>> /\ Head(expo) = "-" THEN 0 - DecimalValue(expDigits)
                  ELSE DecimalValue(expDigits)
      dot == FirstIndex(mant, {"."})
      whole == IF dot = 0 THEN mant ELSE SubSeq(mant, 1, dot - 1)
      frac == IF dot = 0 THEN <<>> ELSE SubSeq(mant, dot + 1, Len(mant))
      mantOk == AllIn(whole, DigitChars) /\ AllIn(frac, DigitChars)
                /\ whole \o frac # <<>>
      lead == DropLeadingZeros(whole \o frac)
      sig == DropTrailingZeros(lead)
      e == expValue - Len(frac) + (Len(lead) - Len(sig))
      order == Len(sig) + e
      lead9 == DecimalValue(sig) * PowerOfTen(9 - Len(sig))
  IN  IF ~ (mantOk /\ expOk) THEN NaN
      ELSE IF sig = <<>> THEN Finite(0)
      ELSE IF order > OverflowOrder \/ (order = OverflowOrder /\ lead9 > OverflowLead)
      THEN Inf(sign)
      ELSE IF order < UnderflowOrder \/ (order = UnderflowOrder /\ lead9 <= UnderflowLead)
      THEN Finite(0)
      ELSE IF e <= SubnormalGrid
      THEN [RoundSubnormal(DecimalValue(sig), e) EXCEPT !.v = sign * @]
      ELSE [kind |-> "finite", v |-> sign * DecimalValue(sig), e |-> e]

HexChars == <<"0","1","2","3","4","5","6","7","8","9","a","b","c","d","e","f">>
RadixDigits(radix) == {HexChars[k] : k \in 1..radix}
RECURSIVE RadixValue(_, _)
RadixValue(ds, radix) ==
  IF ds = <<>> THEN 0
  ELSE radix * RadixValue(SubSeq(ds, 1, Len(ds) - 1), radix)
       + (CHOOSE d \in 0..(radix - 1) : HexChars[d + 1] = ds[Len(ds)])
\* The radix a text announces, 0x, 0o or 0b in either case, 0 when none
RadixOf(t) ==
  IF Len(t) < 2 \/ t[1] # "0" THEN 0
  ELSE CASE t[2] \in {"x", "X"} -> 16
         [] t[2] \in {"o", "O"} -> 8
         [] t[2] \in {"b", "B"} -> 2
         [] OTHER -> 0
\* NonDecimalIntegerLiteral: the digits of the radix after the prefix, in
\* either case, and at least one of them; values below 2^31
NonDecimalLiteral(t) ==
  LET ds == ToLowerCase(SubSeq(t, 3, Len(t)))
  IN  IF ds # <<>> /\ AllIn(ds, RadixDigits(RadixOf(t)))
      THEN Finite(RadixValue(ds, RadixOf(t))) ELSE NaN

\* Number(string): whitespace around is dropped; the empty text is 0; a text
\* with a radix prefix is a non-decimal integer and takes no sign; otherwise
\* an optional sign, then Infinity or a decimal literal; anything else is NaN
ToNumber(text) ==
  LET t == Trim(text)
      signed == t # <<>> /\ Head(t) \in {"+", "-"}
      sign == IF t # <<>> /\ Head(t) = "-" THEN -1 ELSE 1
      u == IF signed THEN Tail(t) ELSE t
  IN  IF t = <<>> THEN Finite(0)
      ELSE IF RadixOf(t) # 0 THEN NonDecimalLiteral(t)
      ELSE IF u = InfinityLiteral THEN Inf(sign)
      ELSE DecimalLiteral(u, sign)

\* url.searchParams.get("limit"): a text, or null when there is none
NoParam == [given |-> FALSE, s |-> <<>>]
Param(text) == [given |-> TRUE, s |-> text]
DefaultLimit == 10
DefaultLimitText == <<"1", "0">>

\* Number(url.searchParams.get("limit") ?? "10")
ParamNumber(param) == ToNumber(IF param.given THEN param.s ELSE DefaultLimitText)

\* (variant: the number is passed on unchecked)
ListLimitUnchecked(param) == ParamNumber(param)
\* Number.isFinite(limit) ? limit : 10
ListLimit(param) ==
  IF ParamNumber(param).kind = "finite" THEN ParamNumber(param) ELSE Finite(DefaultLimit)

\* payload.find({collection: "posts", limit, depth: 1, overrideAccess: true}),
\* for a limit that is an integer and not negative: what the store does with
\* another limit is not in the source
ListFind(ps, limit) == Find(ps, NoWhere, IntegerOf(limit))

\* {source: "custom-api", note, ...result}
CustomListBody(result) ==
  [ok |-> TRUE, endpoint |-> "custom-list", source |-> "custom-api",
   docs |-> Ids(result.docs), totalDocs |-> result.totalDocs]

ListParams ==
  { NoParam, Param(<<"1">>), Param(<<"a","b","c">>), Param(InfinityLiteral),
    Param(<<>>) }

CustomListCall(r) ==
  /\ FirstFree(r)
  /\ quota > 0
  /\ quota' = quota - 1
  /\ now' = now + 1
  /\ \E param \in ListParams :
       req' = [req EXCEPT ![r] = [IdleReq EXCEPT !.kind = "custom-list", !.param = param,
                                                 !.limit = ListLimit(param),
                                                 !.pc = "cl_find"]]
  /\ UNCHANGED <<store, faults, hist, slugIn, slugOut>>

CustomListRead(r) ==
  /\ req[r].pc = "cl_find"
  /\ \E o \in Outcomes :
       /\ faults' = Spend(o)
       /\ req' = [req EXCEPT ![r] =
                    [@ EXCEPT !.pc = "done",
                              !.failed = o = "raise",
                              !.cause = IF o = "ok" THEN "none" ELSE "store",
                              !.resp = IF o = "ok"
                                       THEN CustomListBody(ListFind(posts, req[r].limit))
                                       ELSE ErrorResp("custom-list")]]
  /\ UNCHANGED <<store, now, quota, hist, slugIn, slugOut>>

\* --------------------------------------- POST through the catch-all route
\* The wrapper logs the title of a create request, ignoring any error of the
\* logging, and hands the request to the generated handler.
ApiPosts == <<"api", "posts">>
ApiUnknown == <<"api", "unknown">>

\* url.pathname.endsWith("/api/posts"), on the segments of the path
EndsWithApiPosts(path) ==
  Len(path) >= 2 /\ SubSeq(path, Len(path) - 1, Len(path)) = ApiPosts

RestBodies ==
  { Obj(Str(<<"R">>), Str(<<"r">>), Undef, st, Num(1), Undef) :
      st \in {Undef, Null, Str(PublishedLiteral)} }

\* The POST requests: creations of a post, a body that is not JSON, a path
\* that is not the posts collection, and a creation whose logging throws
RestRequests ==
  { [path |-> ApiPosts, raw |-> b, logFails |-> FALSE] : b \in RestBodies }
  \cup { [path |-> ApiPosts, raw |-> Unparseable, logFails |-> FALSE],
         [path |-> ApiUnknown, raw |-> Obj(Str(<<"R">>), Undef, Undef, Undef, Undef, Undef),
          logFails |-> FALSE],
         [path |-> ApiPosts, raw |-> Obj(Str(<<"R">>), Str(<<"r">>), Undef, Undef, Num(1), Undef),
          logFails |-> TRUE] }

\* await clone.json().catch(() => undefined); body && typeof body.title ===
\* "string" ? body.title : undefined
ShimTitle(raw) ==
  IF raw.kind = "object" /\ raw.title.t = "string" THEN raw.title ELSE Undef

\* What the try block logs: nothing on another path or when it throws
ShimLogged(path, raw, logFails) ==
  IF EndsWithApiPosts(path) /\ ~ logFails THEN [t |-> "logged", s |-> ShimTitle(raw).s, n |-> 0]
  ELSE Undef

\* Whether the try block has read the body of the request itself
\* (variant: the request is read, not its clone)
ShimReadsRequest(path) == EndsWithApiPosts(path)
\* req.clone(): only the clone is read
ShimBodyUsed(path) == FALSE

\* The status select: defaultValue "draft" when the field is absent; null is
\* kept, the field not being required.
RestStatus(v) ==
  IF v.t = "undefined" THEN Draft
  ELSE IF v.t = "null" THEN NullStatus
  ELSE IF v = Str(PublishedLiteral) THEN Published
  ELSE Draft

RestPostData(body) ==
  [title |-> Prop(body, "title").s, slug |-> Prop(body, "slug").s,
   excerpt |-> Prop(body, "excerpt").s, status |-> RestStatus(Prop(body, "status")),
   author |-> Prop(body, "authorId"), categories |-> CategoriesOf(body),
   publishedOn |-> NoDate]

RestCreateBody(created) ==
  [ok |-> TRUE, endpoint |-> "rest-create", doc |-> created]

\* The request arrives and the try block runs: it touches nothing shared
RestPostArrive(r, q) ==
  /\ FirstFree(r)
  /\ quota > 0
  /\ quota' = quota - 1
  /\ now' = now + 1
  /\ req' = [req EXCEPT ![r] =
               [IdleReq EXCEPT !.kind = "rest-create", !.method = "POST",
                               !.body = q.raw,
                               !.path = q.path, !.logFails = q.logFails,
                               !.logged = ShimLogged(q.path, q.raw, q.logFails),
                               !.bodyUsed = ShimBodyUsed(q.path),
                               !.pc = "rest_create"]]
  /\ UNCHANGED <<store, faults, hist, slugIn, slugOut>>

RestPostCall(r) == \E q \in RestRequests : RestPostArrive(r, q)

\* The collection a path of the generated routes names
ApiAuthors == <<"api", "authors">>
ApiCategories == <<"api", "categories">>
CollectionOf(path) ==
  IF path = ApiPosts THEN "posts"
  ELSE IF path = ApiAuthors THEN "authors"
  ELSE IF path = ApiCategories THEN "categories"
  ELSE "none"

\* The generated handler cannot read a body already read, and creates nothing
\* from a body that is not JSON
RestUnreadable(rq) == rq.bodyUsed \/ rq.body.kind = "unparseable"

\* return POSTHandler(req, ctx), on a path that is no route: not found
RestNotFound(r) ==
  /\ req[r].pc = "rest_create"
  /\ CollectionOf(req[r].path) = "none"
  /\ req' = [req EXCEPT ![r] = [@ EXCEPT !.pc = "done", !.handled = @ + 1,
                                         !.resp = ErrorResp("rest-not-found")]]
  /\ UNCHANGED <<store, now, quota, faults, hist, slugIn, slugOut>>

\* return POSTHandler(req, ctx), on /api/posts: the post is created
RestCreate(r) ==
  /\ req[r].pc = "rest_create"
  /\ CollectionOf(req[r].path) = "posts"
  /\ \E o \in IF RestUnreadable(req[r]) THEN {"ok"} ELSE Outcomes :
       /\ faults' = Spend(o)
       /\ LET data == RestPostData(req[r].body)
              created == NewPost(posts, data)
              refused == o = "raise" \/ PostRejected(posts, authors, data)
          IN  IF RestUnreadable(req[r]) \/ refused
              THEN /\ posts' = posts
                   /\ req' = [req EXCEPT ![r] =
                               [@ EXCEPT !.pc = "done", !.handled = @ + 1,
                                         !.failed = ~ RestUnreadable(req[r]),
                                         !.cause = IF RestUnreadable(req[r])
                                                   THEN "input" ELSE "store",
                                         !.resp = ErrorResp("rest-create")]]
                   /\ hist' = hist
              ELSE /\ posts' = Append(posts, created)
                   /\ req' = NoteCreated(
                               [req EXCEPT ![r] = [@ EXCEPT !.pc = "done", !.handled = @ + 1,
                                                            !.resp = RestCreateBody(created)]],
                               created)
                   /\ hist' = NoteCreatedHist(hist, created)
  /\ UNCHANGED <<authors, categories, now, quota, slugIn, slugOut>>

\* ------------------- the other generated routes of the catch-all route
\* export const PATCH, PUT, DELETE: the generated handlers as they are, and
\* POST on the collections other than posts, through the wrapper. They are
\* what a client of the REST API can do to the three collections besides
\* creating a post.

\* POST /api/authors and POST /api/categories: name and title are required
CollectionRequests ==
  { [path |-> ApiAuthors, raw |-> [EmptyObject EXCEPT !.name = Str(<<"Z">>)],
     logFails |-> FALSE],
    [path |-> ApiAuthors, raw |-> EmptyObject, logFails |-> FALSE],
    [path |-> ApiCategories, raw |-> Obj(Str(<<"T">>), Undef, Undef, Undef, Undef, Undef),
     logFails |-> FALSE] }

RestCollectionCall(r) == \E q \in CollectionRequests : RestPostArrive(r, q)

NewCategory(cs, title) == [id |-> NextId(cs), title |-> title]

\* return POSTHandler(req, ctx), on /api/authors or /api/categories
RestCollectionCreate(r) ==
  /\ req[r].pc = "rest_create"
  /\ CollectionOf(req[r].path) \in {"authors", "categories"}
  /\ \E o \in IF RestUnreadable(req[r]) THEN {"ok"} ELSE Outcomes :
       /\ faults' = Spend(o)
       /\ LET toAuthors == CollectionOf(req[r].path) = "authors"
              text == Prop(req[r].body, IF toAuthors THEN "name" ELSE "title")
              refused == o = "raise" \/ text.t # "string" \/ text.s = <<>>
              rq == [req[r] EXCEPT !.pc = "done", !.handled = @ + 1]
          IN  IF RestUnreadable(req[r]) \/ refused
              THEN /\ UNCHANGED <<authors, categories>>
                   /\ req' = [req EXCEPT ![r] =
                               [rq EXCEPT !.failed = ~ RestUnreadable(req[r]),
                                          !.cause = IF RestUnreadable(req[r]) \/ o = "ok"
                                                    THEN "input" ELSE "store",
                                          !.resp = ErrorResp("rest-create")]]
              ELSE /\ authors' = IF toAuthors
                                 THEN Append(authors,
                                             NewAuthor(authors, [name |-> text.s, bio |-> <<>>]))
                                 ELSE authors
                   /\ categories' = IF toAuthors THEN categories
                                    ELSE Append(categories, NewCategory(categories, text.s))
                   /\ req' = [req EXCEPT ![r] =
                               [rq EXCEPT !.resp = [ok |-> TRUE, endpoint |-> "rest-create"]]]
  /\ UNCHANGED <<posts, now, quota, hist, slugIn, slugOut>>

\* The documents of a collection of the three
CollectionDocs(c, ps, as, cs) ==
  IF c = "posts" THEN ps ELSE IF c = "authors" THEN as ELSE cs

HasDoc(docs, id) == \E i \in DOMAIN docs : docs[i].id = id
DocIndex(docs, id) == CHOOSE i \in DOMAIN docs : docs[i].id = id

\* The bodies of a PATCH or PUT on a post: a status, a title (one that is
\* empty), the slug of the first seeded post, an author (one that may not
\* exist), the categories
PostPatches ==
  { Obj(Undef, Undef, Undef, Str(st), Undef, Undef) : st \in {DraftLiteral, PublishedLiteral} }
  \cup { Obj(Str(t), Undef, Undef, Undef, Undef, Undef) : t \in {<<"R">>, <<>>} }
  \cup { Obj(Undef, Str(<<"p", "1">>), Undef, Undef, Undef, Undef),
         Obj(Undef, Undef, Undef, Undef, Num(2), Undef),
         Obj(Undef, Undef, Undef, Undef, Undef, Arr(<<1>>)) }

\* The name of an author, the title of a category: required text
TextField(c) == IF c = "authors" THEN "name" ELSE "title"

\* ... and on an author or a category: a name or a title, one that is empty
TextPatches(c) ==
  { IF c = "authors" THEN [EmptyObject EXCEPT !.name = Str(t)]
    ELSE Obj(Str(t), Undef, Undef, Undef, Undef, Undef) : t \in {<<"Z">>, <<>>} }

\* A DELETE has no body; a PUT is tried with one body for each collection
WriteBodies(c, method) ==
  IF method = "DELETE" THEN {EmptyObject}
  ELSE IF method = "PUT"
  THEN IF c = "posts" THEN {Obj(Undef, Undef, Undef, Str(PublishedLiteral), Undef, Undef)}
       ELSE {b \in TextPatches(c) : Prop(b, TextField(c)) # Str(<<>>)}
  ELSE IF c = "posts" THEN PostPatches
  ELSE TextPatches(c)

\* PATCH, PUT or DELETE /api/<collection>/<id>: the id of a document of the
\* collection, or one that no document has
RestWriteCall(r) ==
  /\ FirstFree(r)
  /\ quota > 0
  /\ quota' = quota - 1
  /\ now' = now + 1
  /\ \E method \in {"PATCH", "PUT", "DELETE"} :
     \E path \in {ApiPosts, ApiAuthors, ApiCategories} :
     \E id \in 1..NextId(CollectionDocs(CollectionOf(path), posts, authors, categories)) :
     \E body \in WriteBodies(CollectionOf(path), method) :
       req' = [req EXCEPT ![r] =
                 [IdleReq EXCEPT !.kind = "rest-write", !.method = method,
                                 !.path = path, !.target = id,
                                 !.body = body,
                                 !.pc = "rest_write"]]
  /\ UNCHANGED <<store, faults, hist, slugIn, slugOut>>

\* Whether the collection of the path has the document a write names
WriteFinds(rq) ==
  HasDoc(CollectionDocs(CollectionOf(rq.path), posts, authors, categories), rq.target)

\* No route: the id names no document, or the method is PUT and the generated
\* handler, which is not in the source, has no route for it
RestWriteNotFound(r) ==
  /\ req[r].pc = "rest_write"
  /\ ~ WriteFinds(req[r]) \/ req[r].method = "PUT"
  /\ req' = [req EXCEPT ![r] = [@ EXCEPT !.pc = "done", !.handled = @ + 1,
                                         !.resp = ErrorResp("rest-not-found")]]
  /\ UNCHANGED <<store, now, quota, faults, hist, slugIn, slugOut>>

\* The fields of a post that the body of an update gives, under the names
\* the collection stores them by, and what it gives for each
PatchFields(body) ==
  {f \in {"title", "slug", "excerpt", "status"} : Prop(body, f).t # "undefined"}
    \cup (IF Prop(body, "authorId").t # "undefined" THEN {"author"} ELSE {})
    \cup (IF Prop(body, "categoryIds").t # "undefined" THEN {"categories"} ELSE {})
PatchValue(body, f) ==
  IF f = "status" THEN RestStatus(Prop(body, "status"))
  ELSE IF f = "author" THEN Prop(body, "authorId").n
  ELSE IF f = "categories" THEN CategoriesOf(body)
  ELSE Prop(body, f).s
PostPatchData(body) == [f \in PatchFields(body) |-> PatchValue(body, f)]

\* The posts schema on an update, over the document as it would become: title,
\* slug and author are required, no other post has the slug, and the author
\* is a document of the authors collection
PatchRejected(ps, as, id, data) ==
  LET merged == Merge(ps[DocIndex(ps, id)], data)
  IN  \/ merged.title = <<>>
      \/ merged.slug = <<>>
      \/ \E k \in DOMAIN ps : ps[k].id # id /\ ps[k].slug = merged.slug
      \/ ~ HasDoc(as, merged.author)

\* The data an update of an author or a category carries, and whether the
\* document it would give lacks its required text
TextPatchData(c, body) ==
  IF Prop(body, TextField(c)).t = "undefined" THEN <<>>
  ELSE [f \in {TextField(c)} |-> Prop(body, TextField(c)).s]
TextRejected(docs, c, id, data) ==
  Merge(docs[DocIndex(docs, id)], data)[TextField(c)] = <<>>

\* payload.update on the authors and on the categories: the collection after it
UpdateAuthor(as, id, data) ==
  [as EXCEPT ![DocIndex(as, id)] = logAfterAuthorChange(Merge(@, data), "update")]
UpdateCategory(cs, id, data) ==
  [cs EXCEPT ![DocIndex(cs, id)] = Merge(@, data)]

\* PATCHHandler (and PUTHandler when it routes the request) on a post: the
\* post is updated with the data given, through the hooks of the collection
RestUpdate(r) ==
  /\ req[r].pc = "rest_write"
  /\ req[r].method \in {"PATCH", "PUT"}
  /\ CollectionOf(req[r].path) = "posts"
  /\ WriteFinds(req[r])
  /\ \E o \in Outcomes :
       /\ faults' = Spend(o)
       /\ LET data == PostPatchData(req[r].body)
              after == UpdatePost(posts, req[r].target, data)
              doc == after[PostIndex(after, req[r].target)]
              invalid == PatchRejected(posts, authors, req[r].target, data)
              rq == [req[r] EXCEPT !.pc = "done", !.handled = @ + 1]
          IN  IF o = "raise" \/ invalid
              THEN /\ posts' = posts
                   /\ req' = [req EXCEPT ![r] =
                               [rq EXCEPT !.failed = TRUE,
                                          !.cause = IF o = "raise" THEN "store" ELSE "input",
                                          !.resp = ErrorResp("rest-update")]]
                   /\ hist' = hist
              ELSE /\ posts' = after
                   /\ req' = NoteCreated(
                               [req EXCEPT ![r] =
                                  [rq EXCEPT !.resp = [ok |-> TRUE, endpoint |-> "rest-update",
                                                       doc |-> doc]]],
                               doc)
                   /\ hist' = NoteCreatedHist(hist, doc)
  /\ UNCHANGED <<authors, categories, now, quota, slugIn, slugOut>>

\* PATCHHandler (and PUTHandler) on an author or a category
RestCollectionUpdate(r) ==
  /\ req[r].pc = "rest_write"
  /\ req[r].method \in {"PATCH", "PUT"}
  /\ CollectionOf(req[r].path) \in {"authors", "categories"}
  /\ WriteFinds(req[r])
  /\ \E o \in Outcomes :
       /\ faults' = Spend(o)
       /\ LET c == CollectionOf(req[r].path)
              data == TextPatchData(c, req[r].body)
              invalid == TextRejected(CollectionDocs(c, posts, authors, categories), c,
                                      req[r].target, data)
              rq == [req[r] EXCEPT !.pc = "done", !.handled = @ + 1]
          IN  IF o = "raise" \/ invalid
              THEN /\ UNCHANGED <<authors, categories>>
                   /\ req' = [req EXCEPT ![r] =
                               [rq EXCEPT !.failed = TRUE,
                                          !.cause = IF o = "raise" THEN "store" ELSE "input",
                                          !.resp = ErrorResp("rest-update")]]
              ELSE /\ authors' = IF c = "authors"
                                 THEN UpdateAuthor(authors, req[r].target, data)
                                 ELSE authors
                   /\ categories' = IF c = "authors" THEN categories
                                    ELSE UpdateCategory(categories, req[r].target, data)
                   /\ req' = [req EXCEPT ![r] =
                               [rq EXCEPT !.resp = [ok |-> TRUE, endpoint |-> "rest-update"]]]
  /\ UNCHANGED <<posts, now, quota, hist, slugIn, slugOut>>

Without(docs, id) == SelectSeq(docs, LAMBDA d : d.id # id)

\* DELETEHandler on a post: the post is removed
RestDelete(r) ==
  /\ req[r].pc = "rest_write"
  /\ req[r].method = "DELETE"
  /\ CollectionOf(req[r].path) = "posts"
  /\ WriteFinds(req[r])
  /\ \E o \in Outcomes :
       /\ faults' = Spend(o)
       /\ posts' = IF o = "raise" THEN posts ELSE Without(posts, req[r].target)
       /\ req' = [req EXCEPT ![r] =
                    [@ EXCEPT !.pc = "done", !.handled = @ + 1,
                              !.failed = o = "raise",
                              !.cause = IF o = "raise" THEN "store" ELSE "none",
                              !.resp = IF o = "raise" THEN ErrorResp("rest-delete")
                                       ELSE [ok |-> TRUE, endpoint |-> "rest-delete"]]]
  /\ UNCHANGED <<authors, categories, now, quota, hist, slugIn, slugOut>>

\* What becomes of the posts that name a document removed from another
\* collection is the database adapter's, which is not in the source: the
\* reference is kept, or cleared, or, the author of a post being required,
\* the removal of an author that a post names is refused
NoAuthor == 0
References(ps, c, id) ==
  {k \in DOMAIN ps : IF c = "authors" THEN ps[k].author = id
                     ELSE \E j \in DOMAIN ps[k].categories : ps[k].categories[j] = id}
Cleared(ps, c, id) ==
  [k \in DOMAIN ps |->
     IF c = "authors"
     THEN [ps[k] EXCEPT !.author = IF @ = id THEN NoAuthor ELSE @]
     ELSE [ps[k] EXCEPT !.categories = SelectSeq(@, LAMBDA x : x # id)]]
DeleteOutcomes(ps, c, id) ==
  IF References(ps, c, id) = {} THEN {"kept"}
  ELSE IF c = "authors" THEN {"kept", "cleared", "refused"}
  ELSE {"kept", "cleared"}

\* DELETEHandler on an author or a category
RestCollectionDelete(r) ==
  /\ req[r].pc = "rest_write"
  /\ req[r].method = "DELETE"
  /\ CollectionOf(req[r].path) \in {"authors", "categories"}
  /\ WriteFinds(req[r])
  /\ \E o \in Outcomes : \E refs \in DeleteOutcomes(posts, CollectionOf(req[r].path), req[r].target) :
       /\ faults' = Spend(o)
       /\ LET c == CollectionOf(req[r].path)
              refused == o = "raise" \/ refs = "refused"
          IN  /\ authors' = IF c = "authors" /\ ~ refused
                            THEN Without(authors, req[r].target) ELSE authors
              /\ categories' = IF c = "categories" /\ ~ refused
                               THEN Without(categories, req[r].target) ELSE categories
              /\ posts' = IF ~ refused /\ refs = "cleared"
                          THEN Cleared(posts, c, req[r].target) ELSE posts
              /\ req' = [req EXCEPT ![r] =
                           [@ EXCEPT !.pc = "done", !.handled = @ + 1,
                                     !.failed = refused,
                                     !.cause = IF refused THEN "store" ELSE "none",
                                     !.resp = IF refused THEN ErrorResp("rest-delete")
                                              ELSE [ok |-> TRUE, endpoint |-> "rest-delete"]]]
  /\ UNCHANGED <<now, quota, hist, slugIn, slugOut>>

\* ------------------------------------------------------- the dashboard page
DashLimit == 10
LocalErrorText ==
  "Payload is not started yet, or the database is unavailable. Start the dev server and ensure migrations can run."
GraphQLErrorText == "Failed to fetch GraphQL data"

\* let localData = {authors: [], posts: [], categories: [], total...: 0}
EmptyLocalData ==
  [authors |-> <<>>, posts |-> <<>>, categories |-> <<>>,
   totalAuthors |-> 0, totalPosts |-> 0, totalCategories |-> 0]

\* payload.find({collection, limit: 10, depth: 1}) of one of the three
LocalFind(c, as, ps, cs) ==
  LET found == Find(CASE c = "authors" -> as [] c = "posts" -> ps [] OTHER -> cs,
                    NoWhere, DashLimit)
  IN  [docs |-> Ids(found.docs), totalDocs |-> found.totalDocs]

\* fetchWithLocalAPI: what it returns of the three answers
fetchWithLocalAPI(read) ==
  [authors |-> read["authors"].docs, posts |-> read["posts"].docs,
   categories |-> read["categories"].docs,
   totalAuthors |-> read["authors"].totalDocs, totalPosts |-> read["posts"].totalDocs,
   totalCategories |-> read["categories"].totalDocs]

\* What a fetch of the page can do: answer, throw (no connection), or answer
\* with a body that is not JSON
NetOutcomes == {"ok", "throws", "not-json"}

\* The body of the GraphQL endpoint: the three lists, or the errors of a
\* query whose read raised
GraphQLAnswer(outcome, as, ps, cs) ==
  IF outcome = "ok"
  THEN [errors |-> <<>>,
        data |-> [Authors |-> Ids(Find(as, NoWhere, DashLimit).docs),
                  Posts |-> Ids(Find(ps, NoWhere, DashLimit).docs),
                  Categories |-> Ids(Find(cs, NoWhere, DashLimit).docs)]]
  ELSE [errors |-> <<"Something went wrong.">>, data |-> "none"]

\* fetchWithGraphQL: try { return await response.json() } catch { return
\* {errors: [{message: "Failed to fetch GraphQL data"}]} }
fetchWithGraphQL(net, answer) ==
  IF net = "ok" THEN answer ELSE [errors |-> <<GraphQLErrorText>>, data |-> "none"]

NullStats == [ok |-> FALSE, endpoint |-> "null"]

\* fetchPostStats: try { if (!response.ok) return null; return await
\* response.json() } catch { return null }
\* (variant: the response is read whatever its status)
fetchPostStatsUnchecked(net, response) ==
  IF net = "ok" THEN response ELSE NullStats
fetchPostStats(net, response) ==
  IF net = "ok" /\ response.ok THEN response ELSE NullStats

\* What the page shows of the data: the banner, the cards and the two panels
DashView(localData, localError, graphqlData, postStats) ==
  [ok |-> TRUE, endpoint |-> "dashboard",
   banner |-> localError,
   authors |-> localData.totalAuthors, posts |-> localData.totalPosts,
   categories |-> localData.totalCategories,
   \* postStats?.published ?? 0
   published |-> IF "published" \in DOMAIN postStats THEN postStats.published ELSE 0,
   graphqlError |-> IF graphqlData.errors # <<>> THEN graphqlData.errors[1] ELSE "",
   graphqlPosts |-> IF graphqlData.errors = <<>> THEN Len(graphqlData.data.Posts) ELSE 0,
   statsPanel |-> postStats # NullStats]

DashCall(r) ==
  /\ FirstFree(r)
  /\ quota > 0
  /\ quota' = quota - 1
  /\ now' = now + 1
  /\ req' = [req EXCEPT ![r] = [IdleReq EXCEPT !.kind = "dashboard",
                                               !.pc = "dash_local",
                                               !.localLeft = LocalReads]]
  /\ UNCHANGED <<store, faults, hist, slugIn, slugOut>>

\* try { localData = await fetchWithLocalAPI() } catch { localError = ... }:
\* one of the reads still out is answered. The first that raises rejects the
\* whole and what the others give is dropped; the last to answer completes it.
DashLocal(r) ==
  /\ req[r].pc = "dash_local"
  /\ \E c \in req[r].localLeft : \E o \in {"ok", "raise"} :
       LET read == [req[r].localRead EXCEPT
                      ![c] = LocalFind(c, authors, posts, categories)]
           last == req[r].localLeft = {c}
       IN  req' = [req EXCEPT ![r] =
                     IF o = "raise"
                     THEN [@ EXCEPT !.pc = "dash_graphql",
                                    !.tried = @ \cup {"local"},
                                    !.broken = @ \cup {"local"},
                                    !.localLeft = {}, !.localRead = NoneRead,
                                    !.localData = EmptyLocalData,
                                    !.localError = LocalErrorText]
                     ELSE IF last
                     THEN [@ EXCEPT !.pc = "dash_graphql",
                                    !.tried = @ \cup {"local"},
                                    !.localLeft = {}, !.localRead = NoneRead,
                                    !.localData = fetchWithLocalAPI(read),
                                    !.localError = ""]
                     ELSE [@ EXCEPT !.localLeft = @ \ {c}, !.localRead = read]]
  /\ UNCHANGED <<store, now, quota, faults, hist, slugIn, slugOut>>

DashGraphQL(r) ==
  /\ req[r].pc = "dash_graphql"
  /\ \E net \in NetOutcomes : \E o \in {"ok", "raise"} :
       req' = [req EXCEPT ![r] =
                 [@ EXCEPT !.pc = "dash_stats",
                           !.tried = @ \cup {"graphql"},
                           !.broken = IF net # "ok" THEN @ \cup {"graphql"} ELSE @,
                           !.graphqlData =
                              fetchWithGraphQL(net, GraphQLAnswer(o, authors, posts,
                                                                  categories))]]
  /\ UNCHANGED <<store, now, quota, faults, hist, slugIn, slugOut>>

\* The last fetch, and the page rendered from what the three gave
DashStats(r) ==
  /\ req[r].pc = "dash_stats"
  /\ \E net \in NetOutcomes : \E o \in {"ok", "raise"} :
       LET postStats == fetchPostStats(net, StatsAnswer(o, posts, now))
       IN  req' = [req EXCEPT ![r] =
                     [@ EXCEPT !.pc = "done",
                               !.tried = @ \cup {"stats"},
                               !.broken = IF net # "ok" \/ o = "raise"
                                          THEN @ \cup {"stats"} ELSE @,
                               !.postStats = postStats,
                               !.resp = DashView(req[r].localData, req[r].localError,
                                                 req[r].graphqlData, postStats)]]
  /\ UNCHANGED <<store, now, quota, faults, hist, slugIn, slugOut>>

\* ----------------------------------------------------------- the slug unit
MaxLen == 3
SlugAlphabet == {"a", "A", "1", " ", "-", "!"}
HelloWorldFoo == <<"H","e","l","l","o",","," ","W","o","r","l","d","!"," "," ","F","o","o">>

StringsOfLen(n) == [1..n -> SlugAlphabet]
DashADash == <<"-","-","-","A","-","-","-">>
LineBreaks == <<"\f","a","\r","\n","b","\t">>
Accented == <<"É", VerticalTab, "B", NoBreakSpace>>
SlugInputs ==
  UNION {StringsOfLen(n) : n \in 0..MaxLen}
    \cup {HelloWorldFoo, DashADash, LineBreaks, Accented}

\* The transform as the documentation words it, each step written over the
\* positions of its input: lower-case; keep only [a-z0-9 whitespace -]; a run
\* of whitespace becomes one hyphen; a run of hyphens becomes one hyphen.
RefWhite == {" ", "\t", "\n", "\r", "\f", VerticalTab, NoBreakSpace}
RefAllowed ==
  {"a","b","c","d","e","f","g","h","i","j","k","l","m","n","o","p","q","r",
   "s","t","u","v","w","x","y","z","0","1","2","3","4","5","6","7","8","9",
   "-"} \cup RefWhite
RefLower(s) ==
  [i \in 1..Len(s) |->
     IF \E k \in 1..Len(UpperChars) : UpperChars[k] = s[i]
     THEN LowerChars[CHOOSE k \in 1..Len(UpperChars) : UpperChars[k] = s[i]]
     ELSE s[i]]
RefStrip(s) == SelectSeq(s, LAMBDA c : c \in RefAllowed)
Positions(n) == [i \in 1..n |-> i]
\* every position but those continuing a run of characters of C, in order
RunStarts(s, C) ==
  SelectSeq(Positions(Len(s)),
            LAMBDA i : ~ (s[i] \in C /\ i > 1 /\ s[i - 1] \in C))
RefSpaceRuns(s) ==
  LET keep == RunStarts(s, RefWhite)
  IN [k \in 1..Len(keep) |-> IF s[keep[k]] \in RefWhite THEN "-" ELSE s[keep[k]]]
RefHyphenRuns(s) ==
  LET keep == RunStarts(s, {"-"}) IN [k \in 1..Len(keep) |-> s[keep[k]]]
\* leading and trailing whitespace removed
RefTrim(s) ==
  LET solid == {i \in 1..Len(s) : s[i] \notin RefWhite}
  IN IF solid = {} THEN <<>>
     ELSE SubSeq(s, CHOOSE i \in solid : \A j \in solid : i <= j,
                    CHOOSE i \in solid : \A j \in solid : j <= i)
RefTransform(s) == RefHyphenRuns(RefSpaceRuns(RefStrip(RefLower(s))))
RefTransformTrimmed(s) ==
  RefHyphenRuns(RefSpaceRuns(RefStrip(RefTrim(RefLower(s)))))

Pending == [done |-> FALSE, value |-> <<>>]

SlugifyCall ==
  /\ ~ slugOut.done
  /\ slugOut' = [done |-> TRUE, value |-> slugify(slugIn)]
  /\ UNCHANGED <<store, req, now, quota, faults, hist, slugIn>>

\* ------------------------------------------------------------ initial states

RECURSIVE Decimal(_)
Decimal(i) ==
  IF i < 10 THEN <<DigitSeq[i + 1]>>
  ELSE Decimal(i \div 10) \o <<DigitSeq[(i % 10) + 1]>>

Alice == [id |-> 1, name |-> <<"A","l","i","c","e">>, bio |-> <<>>]
Bot == [id |-> 1, name |-> ApiBotName, bio |-> ApiBotBio]
News == [id |-> 1, title |-> <<"N","e","w","s">>]

SeedPost(i, status) ==
  [id |-> i, title |-> <<"p">> \o Decimal(i), slug |-> <<"p">> \o Decimal(i),
   excerpt |-> <<>>, status |-> status, author |-> 1, categories |-> <<>>,
   publishedOn |-> NoDate]

InitStatuses == {<<>>, <<Draft>>, <<Published>>, <<Draft, Published>>}

IsApiBot(a) == a.name = ApiBotName
ApiBots(as) == {k \in DOMAIN as : IsApiBot(as[k])}

NoHist(as) == [lastPublishAll |-> NoPrev, bots0 |-> Cardinality(ApiBots(as)), resolved |-> 0]

InitRest ==
  /\ categories = <<News>>
  /\ req = [r \in Reqs |-> IdleReq]
  /\ now = 0
  /\ hist = NoHist(authors)
  /\ slugIn = <<>>
  /\ slugOut = Pending

\* Small stores: every mix of statuses beside an author of another name, no
\* post or a draft beside the API Bot
Init ==
  /\ authors \in {<<>>, <<Alice>>, <<Bot>>}
  /\ \E st \in InitStatuses :
       /\ st # <<>> => authors # <<>>
       /\ authors = <<Bot>> => st \in {<<>>, <<Draft>>}
       /\ posts = [i \in DOMAIN st |-> SeedPost(i, st[i])]
  /\ quota = MaxCalls
  /\ faults = MaxFaults
  /\ InitRest

\* Stores around the two read caps.  `shape` says where the d drafts are.
CapSizes ==
  (0..MaxExtra) \cup ((PublishLimit - MaxExtra)..(PublishLimit + MaxExtra))
                \cup ((StatsLimit - MaxExtra)..(StatsLimit + MaxExtra))

CapDrafts(n) ==
  {d \in 0..n : \/ d <= MaxExtra
                \/ n <= PublishLimit + MaxExtra /\ d >= n - MaxExtra}

\* "old": the d oldest posts are the drafts; "new": the d newest; "null": the
\* d newest, and the oldest post has no status
CapShapes(n, d) == IF d <= MaxExtra THEN {"old", "new", "null"} ELSE {"new"}

CapStatus(n, d, shape, i) ==
  IF shape = "old" THEN (IF i <= d THEN Draft ELSE Published)
  ELSE IF shape = "new" THEN (IF i > n - d THEN Draft ELSE Published)
  ELSE IF i = 1 THEN NullStatus
  ELSE IF i > n - d THEN Draft ELSE Published

InitCap ==
  /\ authors = <<Alice>>
  /\ \E n \in CapSizes : \E d \in CapDrafts(n) : \E shape \in CapShapes(n, d) :
       posts = [i \in 1..n |-> SeedPost(i, CapStatus(n, d, shape, i))]
  /\ quota = MaxCallsCap
  /\ faults = MaxFaultsCap
  /\ InitRest

InitSlug ==
  /\ authors = <<>>
  /\ posts = <<>>
  /\ quota = 0
  /\ faults = 0
  /\ categories = <<News>>
  /\ req = [r \in Reqs |-> IdleReq]
  /\ now = 0
  /\ hist = NoHist(authors)
  /\ slugIn \in SlugInputs
  /\ slugOut = Pending

\* One render of the dashboard over a small store
MaxCallsDash == 2
InitDash ==
  /\ authors \in {<<>>, <<Alice>>, <<Bot>>}
  /\ \E st \in InitStatuses :
       /\ st # <<>> => authors # <<>>
       /\ posts = [i \in DOMAIN st |-> SeedPost(i, st[i])]
  /\ quota = MaxCallsDash
  /\ faults = 0
  /\ InitRest

\* ------------------------------------------------------------ specifications
Handler(r) ==
  \/ StatsCall(r) \/ StatsRead(r)
  \/ PublishAllCall(r) \/ PublishAllRead(r) \/ PublishAllUpdate(r)
  \/ HealthCall(r)
  \/ CustomCreateCall(r) \/ CustomLookup(r) \/ CustomCreateAuthor(r) \/ CustomCreatePost(r)
  \/ CustomListCall(r) \/ CustomListRead(r)
  \/ RestPostCall(r) \/ RestNotFound(r) \/ RestCreate(r)

\* Requests handled concurrently
Next == \E r \in Reqs : Handler(r)
Spec == Init /\ [][Next]_vars

\* The catch-all route: the POST wrapper and the generated routes that write
HandlerRest(r) ==
  \/ RestPostCall(r) \/ RestNotFound(r) \/ RestCreate(r)
  \/ RestCollectionCall(r) \/ RestCollectionCreate(r)
  \/ RestWriteCall(r) \/ RestWriteNotFound(r) \/ RestUpdate(r) \/ RestDelete(r)
  \/ RestCollectionUpdate(r) \/ RestCollectionDelete(r)
NextRest == \E r \in Reqs : HandlerRest(r)

\* Stores of no post, of a draft, of a draft and a published post
MaxCallsRest == 2
MaxFaultsRest == 1
InitApi ==
  /\ authors \in {<<>>, <<Alice>>}
  /\ \E st \in InitStatuses \ {<<Published>>} :
       /\ st # <<>> => authors # <<>>
       /\ posts = [i \in DOMAIN st |-> SeedPost(i, st[i])]
  /\ quota = MaxCallsRest
  /\ faults = MaxFaultsRest
  /\ InitRest
SpecRest == InitApi /\ [][NextRest]_vars

\* Every route: the endpoints and the catch-all route
HandlerAll(r) == Handler(r) \/ HandlerRest(r)
NextAll == \E r \in Reqs : HandlerAll(r)
SpecAll == Init /\ [][NextAll]_vars

\* One request at a time
NextSeq == Handler(1)
SpecSeq == Init /\ [][NextSeq]_vars

\* One request at a time, stats and publish-all only, stores around the caps
NextCap ==
  \/ StatsCall(1) \/ StatsRead(1)
  \/ PublishAllCall(1) \/ PublishAllRead(1) \/ PublishAllUpdate(1)
SpecCap == InitCap /\ [][NextCap]_vars

\* Renders of the dashboard page while posts are created through the custom
\* endpoint
HandlerDash(r) ==
  \/ DashCall(r) \/ DashLocal(r) \/ DashGraphQL(r) \/ DashStats(r)
  \/ CustomCreateCall(r) \/ CustomLookup(r) \/ CustomCreateAuthor(r) \/ CustomCreatePost(r)
NextDash == \E r \in Reqs : HandlerDash(r)
SpecDash == InitDash /\ [][NextDash]_vars

\* The slug unit on its own
NextSlug == SlugifyCall
SpecSlug == InitSlug /\ [][NextSlug]_vars

\* ================================================================ properties
StatusById(id) == posts[PostIndex(posts, id)].status

PublishAllDone(r) == req[r].kind = "publish-all" /\ req[r].pc = "done"
StatsDone(r) == req[r].kind = "stats" /\ req[r].pc = "done"
CustomCreateDone(r) == req[r].kind = "custom-create" /\ req[r].pc = "done"

\* A publish-all that succeeded right after another one that succeeded, no
\* draft having been created since that one read
SecondOfTwo(r) ==
  /\ PublishAllDone(r) /\ req[r].resp.ok
  /\ req[r].prev.done /\ req[r].prev.ok /\ ~ req[r].prev.dirty

\* C1, as stated: whenever publish-all is called twice in succession, both
\* calls succeed and no draft is created in between, the second call returns
\* publishedCount = 0.
C1_SecondCallPublishesNothing ==
  \A r \in Reqs : SecondOfTwo(r) => req[r].resp.publishedCount = 0

\* C1, amended: the same, for a first call whose read returned every draft
\* (at most 100 drafts in the store): the second call returns
\* publishedCount = 0.
C1_SecondCallPublishesNothingUnderCap ==
  \A r \in Reqs :
    SecondOfTwo(r) /\ req[r].prev.allRead => req[r].resp.publishedCount = 0

C1_Witness ==
  \E r \in Reqs :
    /\ SecondOfTwo(r) /\ req[r].prev.allRead
    /\ req[r].prev.count > 0
    /\ req[r].resp.publishedCount = 0

\* C2: when an update inside publish-all raises, the handler ends with the
\* error and no body; the drafts read before the failing one are published,
\* the failing one and every later one that was read are still drafts, and
\* the count of updates made is the number of drafts before the failing one.
C2_PartialPublishOnFailure ==
  \A r \in Reqs :
    PublishAllDone(r) /\ ~ req[r].resp.ok /\ req[r].docs # <<>> =>
      /\ req[r].resp = ErrorResp("publish-all")
      /\ req[r].publishedCount = req[r].i - 1
      /\ \A k \in DOMAIN req[r].docs :
           StatusById(req[r].docs[k]) = IF k < req[r].i THEN Published ELSE Draft

C2_Witness ==
  \E r \in Reqs :
    /\ PublishAllDone(r) /\ ~ req[r].resp.ok
    /\ req[r].i > 1 /\ req[r].i < Len(req[r].docs)
    /\ StatusById(req[r].docs[1]) = Published
    /\ StatusById(req[r].docs[Len(req[r].docs)]) = Draft

\* C3: a publish-all in which nothing raises reads the first min(d, 100) of
\* the d drafts, leaves each of them published, answers publishedCount =
\* min(d, 100) with the message "Published <publishedCount> posts", and
\* leaves the drafts beyond the first 100 drafts.
C3_PublishesFirstHundred ==
  \A r \in Reqs :
    PublishAllDone(r) /\ req[r].resp.ok =>
      LET all == req[r].draftsAtRead
          m == Min(Len(all), PublishLimit)
      IN  /\ req[r].docs = SubSeq(all, 1, m)
          /\ req[r].resp.publishedCount = m
          /\ req[r].resp.message = <<"Published ", m, " posts">>
          /\ \A k \in DOMAIN all :
               StatusById(all[k]) = IF k <= PublishLimit THEN Published ELSE Draft

C3_Witness ==
  \E r \in Reqs :
    /\ PublishAllDone(r) /\ req[r].resp.ok
    /\ Len(req[r].draftsAtRead) > PublishLimit
    /\ req[r].resp.publishedCount = PublishLimit
    /\ StatusById(req[r].draftsAtRead[PublishLimit + 1]) = Draft

\* C4, as stated: over a store of at most 1000 posts, stats answers
\* total = published + draft.
C4_TotalIsPublishedPlusDraft ==
  \A r \in Reqs :
    StatsDone(r) /\ req[r].resp.ok /\ req[r].seen <= StatsLimit =>
      req[r].resp.total = req[r].resp.published + req[r].resp.draft

\* The posts a stats read returns: the newest 1000
InStatsPage(k) == k > Len(posts) - StatsLimit

\* C5, as stated: total, published and draft all come from the bounded read,
\* so total is at most 1000.
C5_TotalWithinCap ==
  \A r \in Reqs : StatsDone(r) /\ req[r].resp.ok => req[r].resp.total <= StatsLimit

\* C5, amended: published and draft count the posts of the one bounded read
\* (at most 1000, posts beyond it excluded), while total is the number of all
\* posts in the store, capped by nothing.
C5_CountsFromBoundedRead ==
  \A r \in Reqs :
    StatsDone(r) /\ req[r].resp.ok =>
      /\ req[r].resp.published =
           Cardinality({k \in DOMAIN posts : InStatsPage(k) /\ posts[k].status = Published})
      /\ req[r].resp.draft =
           Cardinality({k \in DOMAIN posts : InStatsPage(k) /\ posts[k].status = Draft})
      /\ req[r].resp.total = Len(posts)

C5_Witness ==
  \E r \in Reqs :
    /\ StatsDone(r) /\ req[r].resp.ok
    /\ Len(posts) > StatsLimit
    /\ posts[1].status = Draft
    /\ req[r].resp.draft = 0
    /\ req[r].resp.total = Len(posts)

\* C6: whatever the number of posts, stats answers published + draft <= 1000.
C6_CountsSumWithinCap ==
  \A r \in Reqs :
    StatsDone(r) /\ req[r].resp.ok =>
      req[r].resp.published + req[r].resp.draft <= StatsLimit

C6_Witness ==
  \E r \in Reqs :
    /\ StatsDone(r) /\ req[r].resp.ok
    /\ req[r].seen > StatsLimit
    /\ req[r].resp.published + req[r].resp.draft = StatsLimit

\* C7: from a store with no API Bot author, once two custom creates without
\* authorId, one after the other, have resolved their author, exactly one
\* author is named API Bot.
C7_OneApiBotAfterTwoCalls ==
  hist.bots0 = 0 /\ hist.resolved >= 2 => Cardinality(ApiBots(authors)) = 1

C7_Witness ==
  /\ hist.bots0 = 0 /\ hist.resolved = 2
  /\ Cardinality(ApiBots(authors)) = 1
  /\ \E r \in Reqs : CustomCreateDone(r) /\ req[r].resp.ok

\* C8: the author lookup and the author creation are two steps: a call whose
\* lookup missed creates an API Bot author whatever the store holds by then,
\* one that another call created in between included.
C8_CreateAfterMissIsUnconditional ==
  [][\A r \in Reqs :
       req[r].pc = "cc_create_author" /\ req'[r].pc = "cc_create_post" =>
         ApiBots(authors') = ApiBots(authors) \cup {Len(authors) + 1}]_vars

\* the interleaving of the claim: no API Bot at the start, two at the end
C8_Witness ==
  /\ hist.bots0 = 0
  /\ Cardinality(ApiBots(authors)) = 2
  /\ \A r \in Reqs : req[r].kind = "custom-create"

\* C9: the post a custom create makes is published with a publish date
\* exactly when body.status is the literal "published"; for any other or
\* missing status it is a draft without a publish date.
C9_PublishedOnlyOnLiteral ==
  \A r \in Reqs :
    CustomCreateDone(r) /\ req[r].resp.ok =>
      LET created == req[r].resp.created
          given == IF req[r].body.kind = "object" THEN req[r].body.status ELSE Undef
      IN  IF given.t = "string" /\ given.s = PublishedLiteral
          THEN created.status = Published /\ created.publishedOn # NoDate
          ELSE created.status = Draft /\ created.publishedOn = NoDate

\* a post has been created as published, with the date read when its create
\* was called: a health check that arrived while the create was awaited, and
\* so took the other slot, has a later timestamp
C9_Witness ==
  \E r, q \in Reqs :
    /\ CustomCreateDone(r) /\ req[r].resp.ok
    /\ req[r].body.status = Str(PublishedLiteral)
    /\ req[r].resp.created.status = Published
    /\ req[r].resp.created.publishedOn # NoDate
    /\ r < q /\ req[q].kind = "health" /\ req[q].pc = "done"
    /\ req[r].resp.created.publishedOn < req[q].resp.timestamp

\* C10: slugify("Hello, World!  Foo") = "hello-world-foo"
C10_HelloWorldFoo ==
  slugOut.done /\ slugIn = HelloWorldFoo =>
    slugOut.value = <<"h","e","l","l","o","-","w","o","r","l","d","-","f","o","o">>

C10_Witness == slugOut.done /\ slugIn = HelloWorldFoo

\* C11: slugify("---A---") = "a": no leading or trailing hyphen in the slug
C11_DashADash == slugOut.done /\ slugIn = DashADash => slugOut.value = <<"a">>

\* C12 as stated: for every input over the alphabet, slugify(input) is the
\* documented transform: lower-case, strip, whitespace runs to a hyphen,
\* hyphen runs to a hyphen
C12_EqualsReference == slugOut.done => slugOut.value = RefTransform(slugIn)

\* C12: for every input over the alphabet, slugify(input) is the documented
\* transform with leading and trailing whitespace removed after lower-casing:
\* lower-case, trim, strip, whitespace runs to a hyphen, hyphen runs to a
\* hyphen
C12_EqualsTrimmedReference ==
  slugOut.done => slugOut.value = RefTransformTrimmed(slugIn)

\* an input with whitespace at both ends has been slugified
C12_Witness ==
  /\ slugOut.done
  /\ Len(slugIn) = MaxLen
  /\ slugIn[1] = " " /\ slugIn[Len(slugIn)] = " " /\ slugIn[2] = "A"

\* C13: every health call is answered at once with status "ok" and payload
\* "running", whatever the store holds and whether or not store operations
\* fail, and the step performs no store operation: the store and the count of
\* store failures still to come are unchanged
C13_HealthAlwaysOk ==
  [][\A r \in Reqs :
       req'[r] # req[r] /\ req'[r].kind = "health" =>
         /\ req'[r].pc = "done"
         /\ req'[r].resp.ok
         /\ req'[r].resp.status = "ok"
         /\ req'[r].resp.payload = "running"
         /\ store' = store
         /\ faults' = faults]_vars

\* a health call answered while the store fails: the call before it, in the
\* other slot, got the store's failure
C13_Witness ==
  \E r, q \in Reqs :
    /\ req[r].kind = "health" /\ req[r].pc = "done" /\ req[r].resp.ok
    /\ req[q].kind = "stats" /\ req[q].pc = "done"
    /\ req[q].resp = ErrorResp("stats")

RestDone(r) == req[r].kind = "rest-create" /\ req[r].pc = "done"

\* C14: every POST through the catch-all route, on any path, with any body
\* and whether or not the logging throws, invokes the generated handler
\* exactly once, not before the logging is over, with the body of the
\* request unread; the response is the handler's: not-found on a path that
\* is no route, on /api/authors and /api/categories the answer of the
\* creation, and on /api/posts the post created from the request's own body
\* unless that is not JSON or the store refuses
C14_ShimDelegatesOnce ==
  \A r \in Reqs :
    /\ req[r].pc = "rest_create" => req[r].handled = 0 /\ ~ req[r].bodyUsed
    /\ RestDone(r) =>
         /\ req[r].handled = 1
         /\ ~ req[r].bodyUsed
         /\ CollectionOf(req[r].path) = "none" => req[r].resp = ErrorResp("rest-not-found")
         /\ ~ EndsWithApiPosts(req[r].path) => req[r].logged = Undef
         /\ CollectionOf(req[r].path) \in {"authors", "categories"} =>
              req[r].resp.endpoint = "rest-create"
         /\ EndsWithApiPosts(req[r].path) =>
              /\ req[r].resp.endpoint = "rest-create"
              /\ req[r].resp.ok => req[r].resp.doc.title = req[r].body.title.s
              /\ req[r].body.kind = "unparseable" => ~ req[r].resp.ok

\* a creation whose logging threw has been handled and has created its post
C14_Witness ==
  \E r \in Reqs :
    /\ RestDone(r) /\ req[r].logFails /\ req[r].resp.ok
    /\ \E k \in DOMAIN posts : posts[k].id = req[r].resp.doc.id

\* C15: a custom create fails on no request body: every failure of it is a
\* failure of a store operation, and the post is created from the title, the
\* slug and the excerpt of the body where these are strings and from
\* "Custom API Post", slugify(title) and "Created by custom API" where they
\* are not
C15_NeverFailsOnInput ==
  \A r \in Reqs :
    req[r].kind = "custom-create" =>
      /\ req[r].pc = "done" /\ ~ req[r].resp.ok => req[r].cause = "store"
      /\ req[r].pc = "done" /\ req[r].resp.ok =>
           LET body == req[r].body
               str(f) == body.kind = "object" /\ body[f].t = "string"
               title == IF str("title") THEN body.title.s ELSE DefaultTitle
           IN  /\ req[r].resp.created.title = title
               /\ req[r].resp.created.slug =
                    IF str("slug") THEN body.slug.s ELSE slugify(title)
               /\ req[r].resp.created.excerpt =
                    IF str("excerpt") THEN body.excerpt.s ELSE DefaultExcerpt

ListPast(r) == req[r].kind = "custom-list" /\ req[r].pc \in {"cl_find", "done"}

\* C16: the custom list passes to the store a finite limit: 10 when there is
\* no limit parameter, the value of the parameter when it converts to a
\* finite number (1 for "1", 0 for the empty text), 10 when it
\* does not ("abc", "Infinity"); and a page read with a positive limit holds
\* no more posts than the limit
C16_LimitIsFinite ==
  \A r \in Reqs :
    ListPast(r) =>
      LET given(text) == req[r].param = Param(text)
          limit == req[r].limit
      IN  /\ limit.kind = "finite"
          /\ ~ req[r].param.given => IntegerOf(limit) = 10
          /\ given(<<"1">>) => IntegerOf(limit) = 1
          /\ given(<<>>) => IntegerOf(limit) = 0
          /\ given(<<"a","b","c">>) => IntegerOf(limit) = 10
          /\ given(InfinityLiteral) => IntegerOf(limit) = 10
          /\ req[r].param.given /\ ToNumber(req[r].param.s).kind = "finite" =>
               limit = ToNumber(req[r].param.s)
          /\ req[r].pc = "done" /\ req[r].resp.ok /\ IntegerOf(limit) > 0 =>
               Len(req[r].resp.docs) <= IntegerOf(limit)

\* a list with a parameter that is no number has read with limit 10, and a
\* list with limit 1 has returned one post of several
C16_Witness ==
  \E r, q \in Reqs :
    /\ ListPast(r) /\ req[r].pc = "done" /\ req[r].resp.ok
    /\ req[r].param = Param(<<"a","b","c">>)
    /\ ListPast(q) /\ req[q].pc = "done" /\ req[q].resp.ok
    /\ req[q].param = Param(<<"1">>)
    /\ Len(req[q].resp.docs) = 1 /\ req[q].resp.totalDocs > 1

\* C17: in every step of every execution of the endpoints, in any order and
\* interleaving, the posts that are there stay there and a post that is
\* published is published after the step: no post goes back to draft
C17_PublishedStaysPublished ==
  [][/\ Len(posts') >= Len(posts)
     /\ \A k \in DOMAIN posts :
          /\ posts'[k].id = posts[k].id
          /\ posts[k].status = Published => posts'[k].status = Published]_vars

\* a publish-all has published a post and then failed, and the post it
\* published is published
C17_Witness ==
  \E r \in Reqs :
    /\ PublishAllDone(r) /\ ~ req[r].resp.ok
    /\ req[r].publishedCount >= 1
    /\ StatusById(req[r].docs[1]) = Published
    /\ req[r].draftsAtRead # <<>>

\* C18: within a publish-all the updates are made one after the other in the
\* order of the read: the updates completed are those of the first drafts
\* read, in that order; the update the call is about to make is that of the
\* next draft read; and publishedCount is at every point the number of
\* updates completed, also after an update has raised
C18_UpdatesInReadOrder ==
  \A r \in Reqs :
    req[r].kind = "publish-all" /\ req[r].pc \in {"pa_update", "done"} =>
      LET done == req[r].updated IN
      /\ Len(done) <= Len(req[r].docs)
      /\ done = SubSeq(req[r].docs, 1, Len(done))
      /\ req[r].publishedCount = Len(done)
      /\ \A k \in DOMAIN done : StatusById(done[k]) = Published
      /\ req[r].pc = "pa_update" => req[r].i = Len(done) + 1
      /\ req[r].pc = "done" /\ req[r].resp.ok => done = req[r].docs

\* a call is between its first and its second update
C18_Witness ==
  \E r \in Reqs :
    /\ req[r].kind = "publish-all" /\ req[r].pc = "pa_update"
    /\ Len(req[r].docs) = 2
    /\ req[r].i = 2 /\ req[r].publishedCount = 1
    /\ req[r].updated = <<req[r].docs[1]>>

\* C19: a call one of whose store operations has failed has ended there,
\* without a body: the response of stats, publish-all, the custom list and the
\* custom create (and of the creation through the catch-all route) is then
\* the failure, never a success and never counts
C19_FailureIsNotSuccess ==
  \A r \in Reqs :
    /\ req[r].failed =>
         /\ req[r].pc = "done"
         /\ req[r].kind \in {"stats", "publish-all", "custom-list", "custom-create",
                              "rest-create"}
         /\ req[r].resp = ErrorResp(req[r].kind)
    /\ req[r].pc = "done" /\ req[r].resp.ok => ~ req[r].failed

\* the read of stats has failed on a store that holds posts, and the call
\* has ended with the failure
C19_Witness ==
  \E r \in Reqs :
    StatsDone(r) /\ req[r].failed /\ ~ req[r].resp.ok /\ Len(posts) > 0

\* C20: a custom create given an authorId other than undefined, null and the
\* empty text makes no read and no write of the authors collection, and the
\* post it creates references the id given; a custom create given none that
\* finds authors named API Bot makes its one read and no write of the
\* collection, and the post it creates references one of the authors found
C20_AuthorsOnlyWhenNoneGiven ==
  \A r \in Reqs :
    req[r].kind = "custom-create" =>
      LET given == Prop(req[r].body, "authorId")
          supplied == given.t \notin {"undefined", "null"} /\ given # Str(<<>>)
          created == req[r].pc = "done" /\ req[r].resp.ok
      IN  /\ supplied =>
               /\ req[r].authorReads = 0 /\ req[r].authorWrites = 0
               /\ req[r].pc \notin {"cc_lookup", "cc_create_author"}
               /\ created => req[r].resp.created.author = given.n
          /\ ~ supplied /\ req[r].botsAtLookup # {} =>
               /\ req[r].authorReads = 1 /\ req[r].authorWrites = 0
               /\ req[r].pc # "cc_create_author"
               /\ created => req[r].resp.created.author \in req[r].botsAtLookup
          /\ req[r].authorWrites > 0 => ~ supplied /\ req[r].botsAtLookup = {}

\* one custom create was given the id of an author and has created its post
\* with it, another was given none, found API Bot and has created its post
\* with API Bot, and no author has been created
C20_Witness ==
  \E r, q \in Reqs :
    /\ CustomCreateDone(r) /\ req[r].resp.ok
    /\ Prop(req[r].body, "authorId") = Num(1)
    /\ req[r].resp.created.author = 1
    /\ CustomCreateDone(q) /\ req[q].resp.ok
    /\ req[q].authorReads = 1 /\ req[q].botsAtLookup # {}
    /\ req[q].resp.created.author \in req[q].botsAtLookup
    /\ Len(authors) = 1

\* C21: every render of the dashboard completes, whichever of its three
\* fetches fail: a local fetch that failed leaves the empty lists, the zero
\* totals and the advisory text; a GraphQL fetch that failed gives the errors
\* object of the page; a stats fetch that failed or was answered with an
\* error gives null; and each of the three fetches is made whatever became of
\* those before it
C21_RenderCompletes ==
  \A r \in Reqs :
    req[r].kind = "dashboard" =>
      /\ req[r].pc \in {"dash_local", "dash_graphql", "dash_stats", "done"}
      /\ req[r].pc = "dash_graphql" => req[r].tried = {"local"}
      /\ req[r].pc = "dash_stats" => req[r].tried = {"local", "graphql"}
      /\ "local" \in req[r].broken =>
           /\ req[r].localData.authors = <<>> /\ req[r].localData.posts = <<>>
           /\ req[r].localData.categories = <<>>
           /\ req[r].localData.totalAuthors = 0 /\ req[r].localData.totalPosts = 0
           /\ req[r].localData.totalCategories = 0
           /\ req[r].localError = LocalErrorText
      /\ "graphql" \in req[r].broken =>
           req[r].graphqlData.errors = <<GraphQLErrorText>>
      /\ "stats" \in req[r].broken => req[r].postStats = [ok |-> FALSE, endpoint |-> "null"]
      /\ req[r].pc = "done" =>
           /\ req[r].tried = {"local", "graphql", "stats"}
           /\ req[r].resp.ok /\ req[r].resp.endpoint = "dashboard"
           /\ req[r].resp.banner = req[r].localError
           /\ "stats" \in req[r].broken => ~ req[r].resp.statsPanel

\* a render has completed after all three of its fetches failed, on a store
\* that holds posts
C21_Witness ==
  \E r \in Reqs :
    /\ req[r].kind = "dashboard" /\ req[r].pc = "done"
    /\ req[r].broken = {"local", "graphql", "stats"}
    /\ req[r].resp.ok /\ req[r].resp.banner = LocalErrorText
    /\ Len(posts) > 0

\* C22: the hooks hand back what they are given, on create and on update: a
\* post created through the custom route or the catch-all route is the
\* document of the data proposed, field by field, the date of publication
\* being the one read when the create was called; it is stored as created and
\* an update changes its status only; a seeded post differs from its seed in
\* its status only; and an author named API Bot is stored with the name and
\* the bio proposed
C22_HooksPassThrough ==
  /\ \A r \in Reqs :
       CustomCreateDone(r) /\ req[r].resp.ok =>
         LET c == req[r].resp.created
             stored == posts[PostIndex(posts, c.id)]
         IN  /\ c = [id |-> c.id, title |-> req[r].title, slug |-> req[r].slug,
                     excerpt |-> ExcerptOf(req[r].body), status |-> StatusOf(req[r].body),
                     author |-> req[r].authorId.n,
                     categories |-> CategoriesOf(req[r].body),
                     publishedOn |-> req[r].publishedOn]
             /\ stored.status \in {c.status, Published}
             /\ [stored EXCEPT !.status = c.status] = c
  /\ \A r \in Reqs :
       RestDone(r) /\ req[r].resp.ok =>
         LET c == req[r].resp.doc
             b == req[r].body
             stored == posts[PostIndex(posts, c.id)]
         IN  /\ c = [id |-> c.id, title |-> b.title.s, slug |-> b.slug.s,
                     excerpt |-> b.excerpt.s, status |-> RestStatus(b.status),
                     author |-> b.authorId.n, categories |-> CategoriesOf(b),
                     publishedOn |-> NoDate]
             /\ [stored EXCEPT !.status = c.status] = c
  /\ \A k \in DOMAIN posts :
       posts[k].title = <<"p">> \o Decimal(k) =>
         [posts[k] EXCEPT !.status = Draft] = SeedPost(k, Draft)
  /\ \A k \in DOMAIN authors :
       authors[k].name = ApiBotName =>
         authors[k] = [id |-> k, name |-> ApiBotName, bio |-> ApiBotBio]

\* a post created as a draft with a slug of its own has then been published,
\* by a call that created the API Bot author: the three hooks have run, on a
\* create and on an update
C22_Witness ==
  \E r \in Reqs :
    /\ CustomCreateDone(r) /\ req[r].resp.ok
    /\ req[r].authorWrites = 1
    /\ req[r].resp.created.slug = <<"s">>
    /\ req[r].resp.created.status = Draft
    /\ StatusById(req[r].resp.created.id) = Published

\* C23: a step of a publish-all, its read or one of its updates, leaves the
\* authors and the categories as they are, creates and deletes no post, and
\* changes at most the post its update is for, a draft it read, in its
\* status only: publishedOn and every other field stay
C23_OnlyStatusOfDraftsRead ==
  [][\A r \in Reqs :
       /\ req[r].kind = "publish-all"
       /\ req[r].pc \in {"pa_find", "pa_update"}
       /\ req'[r].pc # req[r].pc \/ req'[r].i # req[r].i
       => /\ authors' = authors
          /\ categories' = categories
          /\ Len(posts') = Len(posts)
          /\ \A k \in DOMAIN posts :
               \/ posts'[k] = posts[k]
               \/ /\ req[r].pc = "pa_update"
                  /\ posts[k].id = req[r].docs[req[r].i]
                  /\ posts[k].id \in Range(req[r].draftsAtRead)
                  /\ posts'[k] = [posts[k] EXCEPT !.status = Published]]_vars

\* a publish-all has published a draft, which has no date of publication,
\* next to a post created as published through the custom route, which has
\* one
C23_Witness ==
  \E r, q \in Reqs :
    /\ PublishAllDone(r) /\ req[r].resp.ok /\ req[r].publishedCount >= 1
    /\ \E k \in DOMAIN posts :
         /\ posts[k].id = req[r].docs[1]
         /\ posts[k].status = Published /\ posts[k].publishedOn = NoDate
    /\ CustomCreateDone(q) /\ req[q].resp.ok
    /\ req[q].resp.created.status = Published
    /\ req[q].resp.created.publishedOn # NoDate

\* C24: a publish-all that ends well has updated and counted every draft of
\* its own read, whatever another call did meanwhile: publishedCount is the
\* number of drafts there were when it read, though only the updates that
\* found a draft made a post go from draft to published; so of two calls
\* that ended well, the two counts add up to the two reads, while the posts
\* that went from draft to published are at most the posts read by either
C24_EachCallCountsItsRead ==
  \A r \in Reqs :
    PublishAllDone(r) /\ req[r].resp.ok =>
      /\ req[r].docs = req[r].draftsAtRead
      /\ req[r].resp.publishedCount = Len(req[r].draftsAtRead)
      /\ req[r].transitioned <= req[r].resp.publishedCount
      /\ \A q \in Reqs \ {r} :
           PublishAllDone(q) /\ req[q].resp.ok =>
             req[r].transitioned + req[q].transitioned
               <= Cardinality(Range(req[r].docs) \cup Range(req[q].docs))

\* two calls have read the same draft, each has updated and counted it, and
\* their counts add up to more than the posts that went from draft to
\* published
C24_Witness ==
  \E r, q \in Reqs :
    /\ r # q
    /\ PublishAllDone(r) /\ req[r].resp.ok
    /\ PublishAllDone(q) /\ req[q].resp.ok
    /\ Range(req[r].docs) \cap Range(req[q].docs) # {}
    /\ req[r].resp.publishedCount + req[q].resp.publishedCount
         > req[r].transitioned + req[q].transitioned
    /\ req[r].transitioned + req[q].transitioned
         = Cardinality(Range(req[r].docs) \cup Range(req[q].docs))

\* C25: a custom create that created the API Bot author and whose post was
\* then refused, by a failure of the store or by its schema, ends with the
\* error, has added no post, and leaves the author it created in the store
C25_NoRollbackOfAuthor ==
  \A r \in Reqs :
    CustomCreateDone(r) /\ ~ req[r].resp.ok /\ req[r].authorWrites > 0 =>
      /\ req[r].resp = ErrorResp("custom-create")
      /\ req[r].failed
      /\ req[r].postWrites = 0
      /\ \E k \in DOMAIN authors :
           authors[k] = [id |-> req[r].authorId.n, name |-> ApiBotName, bio |-> ApiBotBio]

\* the post of a call that created the author was refused for its slug, which
\* another post has, without any failure of the store
C25_Witness ==
  \E r \in Reqs :
    /\ CustomCreateDone(r) /\ ~ req[r].resp.ok
    /\ req[r].authorWrites = 1 /\ req[r].postWrites = 0
    /\ faults = MaxFaults
    /\ \E k \in DOMAIN posts : posts[k].slug = req[r].slug
    /\ \E k \in DOMAIN authors : authors[k].id = req[r].authorId.n

\* C26: every step of a stats call, of a health call and of a custom list,
\* and the logging step of a POST through the catch-all route, leaves the
\* posts, the authors and the categories exactly as they are
C26_ReadsWriteNothing ==
  [][\A r \in Reqs :
       \/ /\ req'[r].kind \in {"stats", "health", "custom-list"}
          /\ req'[r] # req[r]
       \/ /\ req'[r].kind = "rest-create"
          /\ req'[r].pc = "rest_create" /\ req[r].pc # "rest_create"
       => posts' = posts /\ authors' = authors /\ categories' = categories]_vars

\* stats has answered on a store with a post without status, which is still
\* without status, and a creation has been logged
C26_Witness ==
  \E r, q \in Reqs :
    /\ StatsDone(r) /\ req[r].resp.ok /\ req[r].resp.total = Len(posts)
    /\ \E k \in DOMAIN posts : posts[k].status = NullStatus
    /\ RestDone(q) /\ req[q].logged.t = "logged"

\* C27: for every input over the alphabet, the slug is made of the characters
\* a-z, 0-9 and the hyphen only, has no two hyphens next to each other, and
\* is its own slug: slugify(slugify(s)) = slugify(s)
C27_SlugShapeAndIdempotence ==
  slugOut.done =>
    LET slug == slugOut.value IN
    /\ \A i \in DOMAIN slug : slug[i] \in RefAllowed \ {" "}
    /\ \A i \in DOMAIN slug : i > 1 => ~ (slug[i - 1] = "-" /\ slug[i] = "-")
    /\ slugify(slug) = slug

\* an input with a space next to a hyphen and an upper-case letter has been
\* slugified
C27_Witness ==
  /\ slugOut.done
  /\ slugIn = <<"A", " ", "-">>
  /\ slugOut.value = <<"a", "-">>

=============================================================================
